---- MODULE Spec2Model ----
(***************************************************************************)
(* Deja Window (GNOME Shell extension): the window state reconciliation    *)
(* engine of extension.js.  Windows, GSettings keys, the per-window handle *)
(* registry, pending GLib timeout and idle sources are the state; every    *)
(* signal handler and every source callback is one action.                 *)
(***************************************************************************)
EXTENDS Integers, Sequences, FiniteSets, TLC

(***************************************************************************)
(* Bounds of the model.                                                    *)
(***************************************************************************)
NumWindows == 2
MaxIdle == 2
MaxNotify == 2
MaxBurst == 2
MaxIdleRegistry == 1
MaxRules == 3

(***************************************************************************)
(* Program constants.                                                      *)
(***************************************************************************)
MIN_SIZE == 50
MIN_COORD == -10000
MARGIN == 50
MAX_ITERATIONS == 50
OFFSET_STEP == 50
TOLERANCE == 10

Windows == 1..NumWindows

(***************************************************************************)
(* WM_CLASS strings are sequences of characters; the empty sequence stands *)
(* for every falsy answer of get_wm_class() (null or "").                  *)
(***************************************************************************)
NoClass == << >>
ClassA == <<"a">>
ClassB == <<"b">>
ClassAB == <<"a", "b">>
ClassIds == {ClassA, ClassB}

(***************************************************************************)
(* A rule of window-app-configs.  flags is the set of restore_* /          *)
(* switch_to_workspace keys that are true.                                 *)
(***************************************************************************)
FlagNames == {"restore_size", "restore_pos", "restore_maximized", "restore_workspace", "switch_to_workspace", "restore_minimized", "restore_above", "restore_sticky"}

Rule(wm, rx, flags) == [wm_class |-> wm, is_regex |-> rx, flags |-> flags]

NoRule == [none |-> TRUE]

(***************************************************************************)
(* new RegExp(p): patterns are literal characters, ".", a leading "^", a   *)
(* trailing "$", and "(" which (unclosed) makes the constructor throw.     *)
(***************************************************************************)
RegExpCompiles(p) == \A i \in 1..Len(p) : p[i] # "("

RegExpBody(p) ==
    LET a == IF Len(p) > 0 /\ p[1] = "^" THEN 2 ELSE 1
        b == IF Len(p) >= a /\ p[Len(p)] = "$" THEN Len(p) - 1 ELSE Len(p)
    IN  [anchorStart |-> a = 2, anchorEnd |-> b < Len(p), body |-> SubSeq(p, a, b)]

\* RegExp.prototype.test: an unanchored search of s for the pattern
RegExpTest(p, s) ==
    LET r == RegExpBody(p)
        n == Len(r.body)
        starts == IF r.anchorStart THEN {1} ELSE 1..(Len(s) + 1)
    IN  \E k \in starts :
            /\ k + n - 1 <= Len(s)
            /\ r.anchorEnd => k + n - 1 = Len(s)
            /\ \A j \in 1..n : r.body[j] = "." \/ r.body[j] = s[k + j - 1]

\* the predicate handed to Array.prototype.find; a throwing RegExp is caught
RuleMatches(c, wmClass) ==
    IF c.is_regex
    THEN IF RegExpCompiles(c.wm_class) THEN RegExpTest(c.wm_class, wmClass) ELSE FALSE
    ELSE c.wm_class = wmClass

\* a regex that fails to compile aborts the whole lookup
RECURSIVE FindFromThrowing(_, _, _)
FindFromThrowing(configs, i, wmClass) ==
    IF i > Len(configs) THEN NoRule
    ELSE IF configs[i].is_regex /\ ~RegExpCompiles(configs[i].wm_class) THEN NoRule
    ELSE IF RuleMatches(configs[i], wmClass) THEN configs[i]
    ELSE FindFromThrowing(configs, i + 1, wmClass)

\* Array.prototype.find: the first element, in index order, the predicate accepts
RECURSIVE FindFrom(_, _, _)
FindFrom(configs, i, wmClass) ==
    IF i > Len(configs) THEN NoRule
    ELSE IF RuleMatches(configs[i], wmClass) THEN configs[i]
    ELSE FindFrom(configs, i + 1, wmClass)

_getConfigForWindow_throwing(configs, wmClass) ==
    IF wmClass = NoClass THEN NoRule ELSE FindFromThrowing(configs, 1, wmClass)

_getConfigForWindow(configs, wmClass) ==
    IF wmClass = NoClass THEN NoRule ELSE FindFrom(configs, 1, wmClass)

(***************************************************************************)
(* An entry of window-app-states.  has is the set of keys present in the   *)
(* JSON object; a key that is absent keeps its default below so that equal *)
(* objects are equal records.                                              *)
(***************************************************************************)
GeometryKeys == {"x", "y", "width", "height"}

EmptyState == [has |-> {}, x |-> 0, y |-> 0, width |-> 0, height |-> 0, workspace |-> 0, maximized |-> FALSE, minimized |-> FALSE, above |-> FALSE, sticky |-> FALSE]

\* savedStates[wmClass] || {}
StateOf(states, wmClass) == IF wmClass \in DOMAIN states THEN states[wmClass] ELSE EmptyState

\* a value of window-app-states that JSON.parse rejects: the one key is not a
\* class identifier
MalformedStates == [c \in {<<"{">>} |-> EmptyState]

ParseStates_raw(v) == v

\* try { savedStates = JSON.parse(...) || {} } catch (e) { savedStates = {} }
ParseStates(v) == IF v = MalformedStates THEN [c \in {} |-> EmptyState] ELSE v

\* savedStates[wmClass].key = v
SetKey(s, key, v) == [s EXCEPT !.has = @ \cup {key}, ![key] = v]

\* savedStates[wmClass].key !== v
Differs(s, key, v) == ~(key \in s.has /\ s[key] = v)

(***************************************************************************)
(* _performSave: the merge into savedStates[wmClass] and whether the       *)
(* result is written back with set_string.  The answer is                  *)
(* [states |-> the value of window-app-states afterwards, changed |-> ...].*)
(***************************************************************************)
SaveWorkspace(s, config, workspaceIndex) ==
    IF "restore_workspace" \in config.flags /\ workspaceIndex # -1 /\ Differs(s.e, "workspace", workspaceIndex)
    THEN [e |-> SetKey(s.e, "workspace", workspaceIndex), changed |-> TRUE]
    ELSE s

\* the rule flag is not consulted
SaveFlag_unflagged(s, config, flag, key, v) ==
    IF Differs(s.e, key, v)
    THEN [e |-> SetKey(s.e, key, v), changed |-> TRUE]
    ELSE s

SaveFlag(s, config, flag, key, v) ==
    IF flag \in config.flags /\ Differs(s.e, key, v)
    THEN [e |-> SetKey(s.e, key, v), changed |-> TRUE]
    ELSE s

SaveSize(s, config, w, h) ==
    IF "restore_size" \in config.flags /\ w > MIN_SIZE /\ h > MIN_SIZE
    THEN [e |-> SetKey(SetKey(s.e, "width", w), "height", h), changed |-> TRUE]
    ELSE s

SavePos(s, config, x, y) ==
    IF "restore_pos" \in config.flags /\ x > MIN_COORD /\ y > MIN_COORD
    THEN [e |-> SetKey(SetKey(s.e, "x", x), "y", y), changed |-> TRUE]
    ELSE s

\* the isMaximized branch is missing: geometry is merged whatever the flag
SaveGeometry_ignoringMaximized(s, config, x, y, w, h, isMaximized) ==
    SavePos(SaveSize(SaveFlag(s, config, "restore_maximized", "maximized", isMaximized), config, w, h), config, x, y)

\* if (isMaximized) {...} else {...}
SaveGeometry(s, config, x, y, w, h, isMaximized) ==
    IF isMaximized
    THEN SaveFlag(s, config, "restore_maximized", "maximized", TRUE)
    ELSE SavePos(SaveSize(SaveFlag(s, config, "restore_maximized", "maximized", FALSE), config, w, h), config, x, y)

_performSave(states, wmClass, x, y, w, h, config, isMaximized, workspaceIndex, minimized, above, sticky) ==
    LET savedStates_ == ParseStates(states)
        s0 == [e |-> StateOf(savedStates_, wmClass), changed |-> FALSE]
        s1 == SaveWorkspace(s0, config, workspaceIndex)
        s2 == SaveFlag(s1, config, "restore_minimized", "minimized", minimized)
        s3 == SaveFlag(s2, config, "restore_above", "above", above)
        s4 == SaveFlag(s3, config, "restore_sticky", "sticky", sticky)
        s5 == SaveGeometry(s4, config, x, y, w, h, isMaximized)
    IN  IF s5.changed
        THEN [states |-> [c \in DOMAIN savedStates_ \cup {wmClass} |-> IF c = wmClass THEN s5.e ELSE savedStates_[c]], changed |-> TRUE]
        ELSE [states |-> states, changed |-> FALSE]

(***************************************************************************)
(* Geometry helpers.                                                       *)
(***************************************************************************)
Rect(x, y, w, h) == [x |-> x, y |-> y, width |-> w, height |-> h]

\* the strict work area, without the margin below its origin
_isPointInWorkArea_strict(x, y, area) ==
    /\ x >= area.x
    /\ x <= area.x + area.width - MARGIN
    /\ y >= area.y
    /\ y <= area.y + area.height - MARGIN

_isPointInWorkArea(x, y, area) ==
    /\ x >= area.x - MARGIN
    /\ x <= area.x + area.width - MARGIN
    /\ y >= area.y - MARGIN
    /\ y <= area.y + area.height - MARGIN

Abs(n) == IF n < 0 THEN -n ELSE n

\* others: the frame rectangles of the visible, non-minimized windows of the
\* same class on the workspace
\* a window at distance exactly TOLERANCE collides too
Collides_inclusive(others, targetX, targetY) == \E o \in others : Abs(o.x - targetX) + Abs(o.y - targetY) <= TOLERANCE

Collides(others, targetX, targetY) == \E o \in others : Abs(o.x - targetX) + Abs(o.y - targetY) < TOLERANCE

RECURSIVE FindFreeFrom(_, _, _, _)
FindFreeFrom(others, i, targetX, targetY) ==
    IF i >= MAX_ITERATIONS THEN <<targetX, targetY>>
    ELSE IF Collides(others, targetX, targetY) THEN FindFreeFrom(others, i + 1, targetX + OFFSET_STEP, targetY + OFFSET_STEP)
    ELSE <<targetX, targetY>>

_findFreePosition(others, targetX, targetY) == FindFreeFrom(others, 0, targetX, targetY)

(***************************************************************************)
(* The model's inputs: window geometry, workspaces and rule lists.         *)
(***************************************************************************)
WorkArea == Rect(0, 0, 1920, 1080)
RectA == Rect(100, 100, 800, 600)
RectFull == Rect(0, 0, 1920, 1080)
ZeroRect == Rect(0, 0, 0, 0)
FrameRects == {RectA, RectFull}
Workspaces == {0, 1}
RestoreFlags == FlagNames \ {"switch_to_workspace"}

RuleA == Rule(ClassA, FALSE, {"restore_size", "restore_pos", "restore_maximized"})
RuleAws == Rule(ClassA, FALSE, {"restore_workspace", "switch_to_workspace", "restore_minimized"})
RuleB == Rule(ClassB, FALSE, {})
RuleBad == Rule(<<"(">>, TRUE, RestoreFlags)

\* a value of the window-app-configs key: text that parses to list, or not at all
Json(list) == [ok |-> TRUE, list |-> list]
Malformed == [ok |-> FALSE, list |-> << >>]
ConfigValues == {Json(<< >>), Json(<<RuleA>>), Json(<<RuleBad, RuleAws>>), Json(<<RuleB>>), Malformed}

\* JSON.parse(json) || [] inside try/catch
ParseConfigs(v) == IF v.ok THEN v.list ELSE << >>

VARIABLES win, activeWs, enabled, appConfigs, savedStates, known, _configs, _handles, sources, idles, notifyIds, signals, emitted, dead, burst, torn, lastSave, cmds, probe

vars == <<win, activeWs, enabled, appConfigs, savedStates, known, _configs, _handles, sources, idles, notifyIds, signals, emitted, dead, burst, torn, lastSave, cmds, probe>>

(***************************************************************************)
(* The extension's own mutable state, gathered so that a handler which     *)
(* calls other handlers is the composition of their effects.               *)
(*   handles    this._handles: window -> handle, with the wmClass the      *)
(*              handle's closures captured and obj, the handle's identity  *)
(*   sources    pending GLib timeout sources (save and workspace switch)   *)
(*   idles      pending GLib idle sources, in dispatch order               *)
(*   notifyIds  per window, the connected notify::wm-class handlers        *)
(*   signals    per window, the handles whose handlers _setupListeners     *)
(*              connected to the window and no disconnect has removed      *)
(*   emitted    the notify::wm-class handlers the running emission ran     *)
(*   known      the known-wm-classes key                                   *)
(*   dead       handles no longer in this._handles whose isRestoreApplied  *)
(*              is true and which an idle closure still holds              *)
(*   burst      per window, the change events since the last snapshot and  *)
(*              the frame rectangle read at the last of them               *)
(*   threw      an exception has left the running callback                 *)
(* torn records the sessions the last step removed from this._handles,     *)
(* with the timeout ids they held.                                         *)
(***************************************************************************)
Ext == [handles |-> _handles, sources |-> sources, idles |-> idles, notifyIds |-> notifyIds, signals |-> signals, emitted |-> 0, known |-> known, dead |-> dead, burst |-> burst, threw |-> FALSE]

\* the state values of a window that _performSave takes as arguments
StateAt(window) == [isMaximized |-> window.maximized, workspaceIndex |-> window.workspace, minimized |-> window.minimized, above |-> window.above, sticky |-> window.sticky]

NoBurst == [n |-> 0, rect |-> ZeroRect, state |-> [isMaximized |-> FALSE, workspaceIndex |-> -1, minimized |-> FALSE, above |-> FALSE, sticky |-> FALSE]]

HeldBy(E, w, obj) == \E i \in 1..Len(E.idles) : E.idles[i].kind = "restore" /\ E.idles[i].w = w /\ E.idles[i].obj = obj

SetExt(E) ==
    /\ _handles' = E.handles
    /\ sources' = E.sources
    /\ idles' = E.idles
    /\ notifyIds' = E.notifyIds
    /\ signals' = E.signals
    /\ emitted' = E.emitted
    /\ known' = E.known
    /\ dead' = {d \in E.dead : HeldBy(E, d[1], d[2])}
    /\ burst' = E.burst
    /\ torn' = {[w |-> w, timeoutId |-> _handles[w].timeoutId, wsTimeoutId |-> _handles[w].wsTimeoutId] : w \in (DOMAIN _handles) \ (DOMAIN E.handles)}

\* the id GLib gives a new source: one no pending source has
FreshId(E) == CHOOSE n \in 1..(Cardinality(E.sources) + 1) : \A s \in E.sources : s.id # n

Source(id, kind, w, wmClass, rect, config, ws, readMaximized) == [id |-> id, kind |-> kind, w |-> w, wmClass |-> wmClass, rect |-> rect, config |-> config, ws |-> ws, readMaximized |-> readMaximized]

\* GLib.source_remove(id), guarded by if (id)
SourceRemove(srcs, id) == {s \in srcs : id = 0 \/ s.id # id}

ScanClosure == [kind |-> "scan", w |-> 0, obj |-> 0, wmClass |-> NoClass, config |-> NoRule]
RestoreClosure(w, obj, wmClass, config) == [kind |-> "restore", w |-> w, obj |-> obj, wmClass |-> wmClass, config |-> config]

\* the identity of a new handle object: one no closure of the window holds
FreshObj(E, w) == CHOOSE n \in 0..Len(E.idles) : ~HeldBy(E, w, n)

Min(a, b) == IF a < b THEN a ELSE b

(***************************************************************************)
(* _cleanupWindow                                                          *)
(***************************************************************************)
\* the workspace-switch timeout is left pending
_cleanupWindow_keepsWsTimeout(E, w) ==
    IF w \notin DOMAIN E.handles THEN E
    ELSE LET handle == E.handles[w]
         IN  [E EXCEPT !.sources = SourceRemove(@, handle.timeoutId),
                       !.handles = [v \in (DOMAIN @) \ {w} |-> @[v]],
                       !.signals[w] = @ - 1,
                       !.dead = IF handle.isRestoreApplied /\ HeldBy(E, w, handle.obj) THEN @ \cup {<<w, handle.obj>>} ELSE @,
                       !.burst[w] = NoBurst]

_cleanupWindow(E, w) ==
    IF w \notin DOMAIN E.handles THEN E
    ELSE LET handle == E.handles[w]
         IN  [E EXCEPT !.sources = SourceRemove(SourceRemove(@, handle.timeoutId), handle.wsTimeoutId),
                       !.handles = [v \in (DOMAIN @) \ {w} |-> @[v]],
                       !.signals[w] = @ - 1,
                       !.dead = IF handle.isRestoreApplied /\ HeldBy(E, w, handle.obj) THEN @ \cup {<<w, handle.obj>>} ELSE @,
                       !.burst[w] = NoBurst]

(***************************************************************************)
(* _recordWmClass: known.push(wmClass); known.sort() orders by UTF-16 code *)
(* unit.  With this._settings null the first statement throws.             *)
(***************************************************************************)
CharCode(ch) == CASE ch = "$" -> 36 [] ch = "(" -> 40 [] ch = "." -> 46 [] ch = "^" -> 94 [] ch = "a" -> 97 [] ch = "b" -> 98

RECURSIVE StrLess(_, _)
StrLess(s, t) ==
    IF t = << >> THEN FALSE
    ELSE IF s = << >> THEN TRUE
    ELSE IF s[1] # t[1] THEN CharCode(s[1]) < CharCode(t[1])
    ELSE StrLess(Tail(s), Tail(t))

RECURSIVE InsertSorted(_, _)
InsertSorted(sorted, c) ==
    IF sorted = << >> THEN <<c>>
    ELSE IF StrLess(c, sorted[1]) THEN <<c>> \o sorted
    ELSE <<sorted[1]>> \o InsertSorted(Tail(sorted), c)

RECURSIVE SortStrings(_)
SortStrings(s) == IF s = << >> THEN << >> ELSE InsertSorted(SortStrings(SubSeq(s, 1, Len(s) - 1)), s[Len(s)])

\* known.push(wmClass) without known.sort()
_recordWmClass_appends(E, wmClass, settings) ==
    IF wmClass = NoClass THEN E
    ELSE IF ~settings THEN [E EXCEPT !.threw = TRUE]
    ELSE IF \E i \in 1..Len(E.known) : E.known[i] = wmClass THEN E
    ELSE [E EXCEPT !.known = Append(@, wmClass)]

_recordWmClass(E, wmClass, settings) ==
    IF wmClass = NoClass THEN E
    ELSE IF ~settings THEN [E EXCEPT !.threw = TRUE]
    ELSE IF \E i \in 1..Len(E.known) : E.known[i] = wmClass THEN E
    ELSE [E EXCEPT !.known = SortStrings(Append(@, wmClass))]

(***************************************************************************)
(* The per-window handlers of _setupListeners.  window is the window as    *)
(* the handler reads it, configs is this._configs.                         *)
(***************************************************************************)
\* the first part of _applySavedState: the gate and GLib.idle_add
_applySavedState(E, w, wmClass, config) ==
    IF w \notin DOMAIN E.handles THEN E
    ELSE IF E.handles[w].isRestoreApplied THEN E
    ELSE [E EXCEPT !.idles = Append(@, RestoreClosure(w, E.handles[w].obj, wmClass, config))]

\* 'shown' of a restored session clears the flag and restores again
handleWindowShown_reapplies(E, w, configs) ==
    LET handle == E.handles[w]
        currentConfig == _getConfigForWindow(configs, handle.wmClass)
        cleared == [E EXCEPT !.handles[w].isRestoreApplied = FALSE]
    IN  IF currentConfig # NoRule THEN _applySavedState(cleared, w, handle.wmClass, currentConfig)
        ELSE E

handleWindowShown(E, w, configs) ==
    LET handle == E.handles[w]
        currentConfig == _getConfigForWindow(configs, handle.wmClass)
    IN  IF handle.isRestoreApplied THEN E
        ELSE IF currentConfig # NoRule THEN _applySavedState(E, w, handle.wmClass, currentConfig)
        ELSE E

\* the previous timeout is not removed before the new one is added
ScheduleSave_noCancel(E, w, window, configs) ==
    LET handle == E.handles[w]
        currentConfig == _getConfigForWindow(configs, handle.wmClass)
        id == FreshId(E)
    IN  IF currentConfig = NoRule THEN [E EXCEPT !.burst[w] = NoBurst]
        ELSE [E EXCEPT !.sources = @ \cup {Source(id, "save", w, handle.wmClass, window.rect, currentConfig, -1, window.maximized)},
                       !.handles[w].timeoutId = id,
                       !.burst[w] = [n |-> Min(@.n + 1, MaxBurst), rect |-> window.rect, state |-> StateAt(window)]]

\* if (handle.timeoutId) source_remove ...; timeout_add(500, ...)
ScheduleSave(E, w, window, configs) ==
    LET handle == E.handles[w]
        currentConfig == _getConfigForWindow(configs, handle.wmClass)
        cancelled == [E EXCEPT !.sources = SourceRemove(@, handle.timeoutId), !.handles[w].timeoutId = 0]
        id == FreshId(cancelled)
    IN  IF currentConfig = NoRule THEN [cancelled EXCEPT !.burst[w] = NoBurst]
        ELSE [cancelled EXCEPT !.sources = @ \cup {Source(id, "save", w, handle.wmClass, window.rect, currentConfig, -1, window.maximized)},
                               !.handles[w].timeoutId = id,
                               !.burst[w] = [n |-> Min(@.n + 1, MaxBurst), rect |-> window.rect, state |-> StateAt(window)]]

\* the isRestoreApplied gate is missing: every event schedules a save
handleWindowChange_ungated(E, w, window, configs) == ScheduleSave(E, w, window, configs)

handleWindowChange(E, w, window, configs) ==
    LET handle == E.handles[w]
        currentConfig == _getConfigForWindow(configs, handle.wmClass)
    IN  IF ~handle.isRestoreApplied
        THEN IF currentConfig # NoRule THEN _applySavedState(E, w, handle.wmClass, currentConfig) ELSE E
        ELSE ScheduleSave(E, w, window, configs)

\* the "already registered" return is missing
_setupListeners_unguarded(E, w, wmClass, callShown, configs) ==
    LET handle == [timeoutId |-> 0, wsTimeoutId |-> 0, isRestoreApplied |-> FALSE, wmClass |-> wmClass, obj |-> FreshObj(E, w)]
        E1 == [E EXCEPT !.handles = (w :> handle) @@ [v \in (DOMAIN @) \ {w} |-> @[v]], !.signals[w] = @ + 1]
    IN  IF callShown THEN handleWindowShown(E1, w, configs) ELSE E1

_setupListeners(E, w, wmClass, callShown, configs) ==
    IF w \in DOMAIN E.handles THEN E
    ELSE LET handle == [timeoutId |-> 0, wsTimeoutId |-> 0, isRestoreApplied |-> FALSE, wmClass |-> wmClass, obj |-> FreshObj(E, w)]
             E1 == [E EXCEPT !.handles = (w :> handle) @@ @, !.signals[w] = @ + 1]
         IN  IF callShown THEN handleWindowShown(E1, w, configs) ELSE E1

_checkAndSetup(E, w, window, callShown, configs) ==
    IF window.wm_class = NoClass THEN E
    ELSE IF _getConfigForWindow(configs, window.wm_class) # NoRule THEN _setupListeners(E, w, window.wm_class, callShown, configs)
    ELSE E

_onWindowCreated(E, w, window, callShown, configs, settings) ==
    IF w \in DOMAIN E.handles THEN E
    ELSE IF window.wm_class # NoClass
    THEN LET E1 == _recordWmClass(E, window.wm_class, settings)
         IN  IF E1.threw THEN E1 ELSE _checkAndSetup(E1, w, window, callShown, configs)
    ELSE [E EXCEPT !.notifyIds[w] = @ + 1]

\* one notify::wm-class handler connected by _onWindowCreated
onNotifyWmClass(E, w, window, callShown, configs, settings) ==
    LET E0 == [E EXCEPT !.notifyIds[w] = @ - 1, !.emitted = @ + 1]
        E1 == _recordWmClass(E0, window.wm_class, settings)
    IN  IF E1.threw THEN [E1 EXCEPT !.threw = FALSE] ELSE _checkAndSetup(E1, w, window, callShown, configs)

\* the emission runs every connected handler
RECURSIVE EmitNotifyWmClass(_, _, _, _, _, _, _)
EmitNotifyWmClass(E, n, w, window, callShown, configs, settings) ==
    IF n = 0 THEN E
    ELSE EmitNotifyWmClass(onNotifyWmClass(E, w, window, callShown, configs, settings), n - 1, w, window, callShown, configs, settings)

\* the idle callback of enable(): for (const window of get_tab_list(...))
RECURSIVE ScanFrom(_, _, _, _, _, _)
ScanFrom(E, i, wins, callShown, configs, settings) ==
    IF i > NumWindows \/ E.threw THEN E
    ELSE IF wins[i].life # "managed" THEN ScanFrom(E, i + 1, wins, callShown, configs, settings)
    ELSE ScanFrom(_onWindowCreated(E, i, wins[i], callShown[i], configs, settings), i + 1, wins, callShown, configs, settings)

\* the loop of _updateConfigs and of disable()
RECURSIVE CleanupFrom(_, _, _)
CleanupFrom(E, i, doomed) ==
    IF i > NumWindows THEN E
    ELSE CleanupFrom(IF i \in doomed THEN _cleanupWindow(E, i) ELSE E, i + 1, doomed)

\* the class captured by _setupListeners is matched, not window.get_wm_class()
_updateConfigs_byCapturedClass(E, wins, configs) ==
    CleanupFrom(E, 1, {w \in DOMAIN E.handles : _getConfigForWindow(configs, E.handles[w].wmClass) = NoRule})

_updateConfigs_reconciling(E, wins, configs) ==
    ScanFrom(CleanupFrom(E, 1, {w \in DOMAIN E.handles : _getConfigForWindow(configs, wins[w].wm_class) = NoRule}),
             1, wins, [w \in Windows |-> FALSE], configs, TRUE)

_updateConfigs(E, wins, configs) ==
    CleanupFrom(E, 1, {w \in DOMAIN E.handles : _getConfigForWindow(configs, wins[w].wm_class) = NoRule})

(***************************************************************************)
(* The idle callback of _applySavedState, after its gate: the commands it  *)
(* gives the window.  others are the frame rectangles _findFreePosition    *)
(* compares with, active the active workspace.  Work-area and frame sizes  *)
(* of the model differ by even numbers, so "/ 2" is exact.                 *)
(***************************************************************************)
\* the work area's corner instead of its centre
Centered_corner(area, w, h) == [x |-> area.x, y |-> area.y]

Centered(area, w, h) == [x |-> area.x + (area.width - w) \div 2, y |-> area.y + (area.height - h) \div 2]

\* the difference of the widths is not halved
_centerWindow_unhalved(window) ==
    IF window.workspace = -1 THEN window
    ELSE [window EXCEPT !.rect.x = WorkArea.x + (WorkArea.width - window.rect.width), !.rect.y = WorkArea.y + (WorkArea.height - window.rect.height)]

_centerWindow(window) ==
    IF window.workspace = -1 THEN window
    ELSE LET c == Centered(WorkArea, window.rect.width, window.rect.height)
         IN  [window EXCEPT !.rect.x = c.x, !.rect.y = c.y]

\* the saved size is not used
TargetSize_keepsCurrent(config, state, rect) == [width |-> rect.width, height |-> rect.height]

TargetSize(config, state, rect) ==
    IF /\ "restore_size" \in config.flags
       /\ {"width", "height"} \subseteq state.has
       /\ state.width # 0 /\ state.height # 0
       /\ state.width > MIN_SIZE /\ state.height > MIN_SIZE
    THEN [width |-> state.width, height |-> state.height]
    ELSE [width |-> rect.width, height |-> rect.height]

\* the saved position is never taken
TargetPosition_centred(config, state, size, area) ==
    [x |-> area.x + (area.width - size.width) \div 2, y |-> area.y + (area.height - size.height) \div 2]

TargetPosition(config, state, size, area) ==
    IF "restore_pos" \in config.flags /\ {"x", "y"} \subseteq state.has /\ _isPointInWorkArea(state.x, state.y, area)
    THEN [x |-> state.x, y |-> state.y]
    ELSE Centered(area, size.width, size.height)

\* the two final comparisons are missing
Clamp_missing(p, area) == [x |-> p[1], y |-> p[2]]

Clamp(p, area) ==
    [x |-> IF p[1] > area.x + area.width - MARGIN THEN area.x + area.width - MARGIN ELSE p[1],
     y |-> IF p[2] > area.y + area.height - MARGIN THEN area.y + area.height - MARGIN ELSE p[2]]

\* if (handle.wsTimeoutId) source_remove ...; timeout_add(100, ...)
ScheduleSwitch(E, w, ws) ==
    IF w \notin DOMAIN E.handles THEN E
    ELSE LET cancelled == [E EXCEPT !.sources = SourceRemove(@, E.handles[w].wsTimeoutId), !.handles[w].wsTimeoutId = 0]
             id == FreshId(cancelled)
         IN  [cancelled EXCEPT !.sources = @ \cup {Source(id, "ws", w, NoClass, ZeroRect, NoRule, ws, FALSE)}, !.handles[w].wsTimeoutId = id]

SetFromState(window, config, state, flag, key) ==
    IF flag \in config.flags /\ key \in state.has THEN [window EXCEPT ![key] = state[key]] ELSE window

\* the geometry is applied to a maximized window as well
AppliesGeometry_always(window, config) == TRUE

\* if (!isMaximized || config.restore_maximized)
AppliesGeometry(window, config) == ~window.maximized \/ "restore_maximized" \in config.flags

\* the command of a state flag: on when the saved value is true, else off
\* the saved value is not tested for presence
FlagCommand_unsaved(config, state, flag, key, on, off) ==
    IF flag \in config.flags THEN <<IF state[key] THEN on ELSE off>> ELSE << >>

FlagCommand(config, state, flag, key, on, off) ==
    IF flag \in config.flags /\ key \in state.has THEN <<IF state[key] THEN on ELSE off>> ELSE << >>

RestoreBody(E, w, wmClass, config, window, states, others, active) ==
    IF config.flags \cap RestoreFlags = {}
    THEN [window |-> _centerWindow(window), E |-> E, cmds |-> {"move_frame"}, seq |-> <<"move_frame">>]
    ELSE
    LET state == StateOf(ParseStates(states), wmClass)
        size == TargetSize(config, state, window.rect)
        pos == TargetPosition(config, state, size, WorkArea)
        target == Clamp(_findFreePosition(others, pos.x, pos.y), WorkArea)
        geometry == AppliesGeometry(window, config)
        w1 == IF geometry THEN [window EXCEPT !.maximized = FALSE, !.rect = Rect(target.x, target.y, size.width, size.height)] ELSE window
        move == /\ "restore_workspace" \in config.flags
                /\ "workspace" \in state.has /\ state.workspace # -1
                /\ state.workspace \in Workspaces
        w2 == IF move THEN [w1 EXCEPT !.workspace = state.workspace] ELSE w1
        switch == move /\ "switch_to_workspace" \in config.flags /\ state.workspace # active
        E1 == IF switch THEN ScheduleSwitch(E, w, state.workspace) ELSE E
        w3 == SetFromState(w2, config, state, "restore_sticky", "sticky")
        w4 == SetFromState(w3, config, state, "restore_above", "above")
        w5 == SetFromState(w4, config, state, "restore_minimized", "minimized")
        maximize == "restore_maximized" \in config.flags /\ "maximized" \in state.has /\ state.maximized
        w6 == IF maximize THEN [w5 EXCEPT !.maximized = TRUE] ELSE w5
        seq == (IF geometry /\ window.maximized THEN <<"unmaximize">> ELSE << >>)
               \o (IF geometry THEN <<"move_resize_frame">> ELSE << >>)
               \o (IF move THEN <<"change_workspace">> ELSE << >>)
               \o FlagCommand(config, state, "restore_sticky", "sticky", "stick", "unstick")
               \o FlagCommand(config, state, "restore_above", "above", "make_above", "unmake_above")
               \o FlagCommand(config, state, "restore_minimized", "minimized", "minimize", "unminimize")
               \o (IF maximize THEN <<"maximize">> ELSE << >>)
    IN  [window |-> w6, E |-> E1, cmds |-> {seq[i] : i \in 1..Len(seq)}, seq |-> seq]

\* workspace.list_windows() filtered as in _findFreePosition
Others(wins, w, wmClass) ==
    {wins[v].rect : v \in {u \in Windows \ {w} :
        /\ wins[u].life = "managed"
        /\ wins[u].workspace = wins[w].workspace \/ wins[u].sticky
        /\ wins[u].wm_class = wmClass
        /\ ~wins[u].minimized}}

(***************************************************************************)
(* A call of _performSave, as the last step made it: its arguments, the    *)
(* entry of the class before and after, and about the calling session:     *)
(* its isRestoreApplied, its burst, and whether the window was maximized   *)
(* when the frame rectangle was read.                                      *)
(***************************************************************************)
NoSave == [by |-> "none"]

\* a direct call of _getConfigForWindow and its answer
NoProbe == [wmClass |-> NoClass, result |-> NoRule]

Snapshot(by, E, w, wmClass, rect, readMaximized, config, window, states, settings) ==
    LET r == IF settings
             THEN _performSave(states, wmClass, rect.x, rect.y, rect.width, rect.height, config, window.maximized, window.workspace, window.minimized, window.above, window.sticky)
             ELSE [states |-> states, changed |-> FALSE]
    IN  [states |-> r.states,
         call |-> [by |-> by, w |-> w, wmClass |-> wmClass, rect |-> rect, config |-> config,
                   isMaximized |-> window.maximized, workspaceIndex |-> window.workspace,
                   minimized |-> window.minimized, above |-> window.above, sticky |-> window.sticky,
                   before |-> StateOf(ParseStates(states), wmClass), after |-> StateOf(r.states, wmClass), changed |-> r.changed,
                   tracked |-> w \in DOMAIN E.handles,
                   applied |-> w \in DOMAIN E.handles /\ E.handles[w].isRestoreApplied,
                   burst |-> E.burst[w], readMaximized |-> readMaximized]]

\* the session is cleaned up without the last save
handleWindowUnmanaging_withoutSave(E, w, window, configs, states, settings) ==
    LET handle == E.handles[w]
        currentConfig == _getConfigForWindow(configs, handle.wmClass)
    IN  IF handle.isRestoreApplied /\ currentConfig = NoRule THEN [E |-> E, states |-> states, call |-> NoSave]
        ELSE [E |-> _cleanupWindow(E, w), states |-> states, call |-> NoSave]

handleWindowUnmanaging(E, w, window, configs, states, settings) ==
    LET handle == E.handles[w]
        currentConfig == _getConfigForWindow(configs, handle.wmClass)
        saved == Snapshot("unmanaging", E, w, handle.wmClass, window.rect, window.maximized, currentConfig, window, states, settings)
    IN  IF ~handle.isRestoreApplied THEN [E |-> _cleanupWindow(E, w), states |-> states, call |-> NoSave]
        ELSE IF currentConfig = NoRule THEN [E |-> E, states |-> states, call |-> NoSave]
        ELSE [E |-> _cleanupWindow(E, w), states |-> saved.states, call |-> saved.call]

(***************************************************************************)
(* The state machine.                                                      *)
(***************************************************************************)
Unborn == [life |-> "unborn", wm_class |-> NoClass, rect |-> ZeroRect, maximized |-> FALSE, workspace |-> -1, minimized |-> FALSE, above |-> FALSE, sticky |-> FALSE]

\* after enable(), with the settings keys as an earlier run left them
InitWith(configValues, stores) ==
    /\ win = [w \in Windows |-> Unborn]
    /\ activeWs = 0
    /\ enabled = TRUE
    /\ appConfigs \in configValues
    /\ savedStates \in stores
    /\ known = << >>
    /\ _configs = ParseConfigs(appConfigs)
    /\ _handles = [w \in {} |-> 0]
    /\ sources = {}
    /\ idles = <<ScanClosure>>
    /\ notifyIds = [w \in Windows |-> 0]
    /\ signals = [w \in Windows |-> 0]
    /\ emitted = 0
    /\ dead = {}
    /\ burst = [w \in Windows |-> NoBurst]
    /\ torn = {}
    /\ lastSave = NoSave
    /\ cmds = {}
    /\ probe = NoProbe

Bounded(E) == Len(E.idles) <= MaxIdle /\ \A w \in Windows : E.notifyIds[w] <= MaxNotify

Commit(E) == Bounded(E) /\ SetExt(E)

Quiet == lastSave' = NoSave /\ cmds' = {} /\ probe' = probe

\* display 'window-created'
WindowCreated(w, c, callShown) ==
    /\ win[w].life = "unborn"
    /\ LET window == [Unborn EXCEPT !.life = "managed", !.wm_class = c, !.rect = RectA, !.workspace = activeWs]
       IN  /\ win' = [win EXCEPT ![w] = window]
           /\ IF enabled THEN Commit(_onWindowCreated(Ext, w, window, callShown, _configs, TRUE)) ELSE SetExt(Ext)
    /\ UNCHANGED <<activeWs, enabled, appConfigs, savedStates, _configs>>
    /\ Quiet

\* window 'notify::wm-class'
WmClassChanged(w, c, callShown) ==
    /\ win[w].life = "managed"
    /\ c # win[w].wm_class
    /\ LET window == [win[w] EXCEPT !.wm_class = c]
       IN  /\ win' = [win EXCEPT ![w] = window]
           /\ Commit(EmitNotifyWmClass(Ext, notifyIds[w], w, window, callShown, _configs, enabled))
    /\ UNCHANGED <<activeWs, enabled, appConfigs, savedStates, _configs>>
    /\ Quiet

\* window 'shown'
WindowShown(w) ==
    /\ win[w].life = "managed"
    /\ w \in DOMAIN _handles
    /\ Commit(handleWindowShown(Ext, w, _configs))
    /\ UNCHANGED <<win, activeWs, enabled, appConfigs, savedStates, _configs>>
    /\ Quiet

\* a change of the window together with the signal that reports it
Changed(w, window) ==
    /\ win[w].life = "managed"
    /\ win' = [win EXCEPT ![w] = window]
    /\ IF w \in DOMAIN _handles THEN Commit(handleWindowChange(Ext, w, window, _configs)) ELSE SetExt(Ext)
    /\ UNCHANGED <<activeWs, enabled, appConfigs, savedStates, _configs>>
    /\ Quiet

\* window 'size-changed' / 'position-changed'
FrameChanged(w, r) == r # win[w].rect /\ Changed(w, [win[w] EXCEPT !.rect = r])

\* window 'workspace-changed'
WorkspaceChanged(w, ws) == ws # win[w].workspace /\ Changed(w, [win[w] EXCEPT !.workspace = ws])

\* window 'notify::minimized'
MinimizedChanged(w) == Changed(w, [win[w] EXCEPT !.minimized = ~@])

\* window 'notify::above'
AboveChanged(w) == Changed(w, [win[w] EXCEPT !.above = ~@])

\* window 'notify::on-all-workspaces'
StickyChanged(w) == Changed(w, [win[w] EXCEPT !.sticky = ~@])

\* the second of the two signals of one move or resize
SignalRepeated(w) == w \in DOMAIN _handles /\ Changed(w, win[w])

\* maximized_horizontally / maximized_vertically flip; no connected signal
\* reports it, the frame rectangle follows with its own size-changed
MaximizedChanged(w) ==
    /\ win[w].life = "managed"
    /\ win' = [win EXCEPT ![w].maximized = ~@]
    /\ SetExt(Ext)
    /\ UNCHANGED <<activeWs, enabled, appConfigs, savedStates, _configs>>
    /\ Quiet

\* window 'unmanaging'; afterwards the window has no workspace
WindowUnmanaging(w) ==
    /\ win[w].life = "managed"
    /\ win' = [win EXCEPT ![w].life = "gone", ![w].workspace = -1]
    /\ IF w \in DOMAIN _handles
       THEN LET r == handleWindowUnmanaging(Ext, w, win[w], _configs, savedStates, enabled)
            IN  SetExt(r.E) /\ savedStates' = r.states /\ lastSave' = r.call
       ELSE SetExt(Ext) /\ savedStates' = savedStates /\ lastSave' = NoSave
    /\ cmds' = {}
    /\ UNCHANGED <<activeWs, enabled, appConfigs, _configs, probe>>

\* the callback of the timeout added by handleWindowChange
SaveTimeout_continues(s) ==
    /\ s \in sources /\ s.kind = "save"
    /\ LET r == Snapshot("timeout", Ext, s.w, s.wmClass, s.rect, s.readMaximized, s.config, win[s.w], savedStates, enabled)
           E1 == [Ext EXCEPT !.burst[s.w] = NoBurst]
       IN  /\ SetExt(IF s.w \in DOMAIN _handles THEN [E1 EXCEPT !.handles[s.w].timeoutId = 0] ELSE E1)
           /\ savedStates' = r.states
           /\ lastSave' = r.call
    /\ cmds' = {}
    /\ UNCHANGED <<win, activeWs, enabled, appConfigs, _configs, probe>>

SaveTimeout(s) ==
    /\ s \in sources /\ s.kind = "save"
    /\ LET r == Snapshot("timeout", Ext, s.w, s.wmClass, s.rect, s.readMaximized, s.config, win[s.w], savedStates, enabled)
           E1 == [Ext EXCEPT !.sources = @ \ {s}, !.burst[s.w] = NoBurst]
       IN  /\ SetExt(IF s.w \in DOMAIN _handles THEN [E1 EXCEPT !.handles[s.w].timeoutId = 0] ELSE E1)
           /\ savedStates' = r.states
           /\ lastSave' = r.call
    /\ cmds' = {}
    /\ UNCHANGED <<win, activeWs, enabled, appConfigs, _configs, probe>>

\* the callback of the timeout added by the workspace restore
SwitchTimeout(s) ==
    /\ s \in sources /\ s.kind = "ws"
    /\ activeWs' = s.ws
    /\ LET E1 == [Ext EXCEPT !.sources = @ \ {s}]
       IN  SetExt(IF s.w \in DOMAIN _handles THEN [E1 EXCEPT !.handles[s.w].wsTimeoutId = 0] ELSE E1)
    /\ UNCHANGED <<win, enabled, appConfigs, savedStates, _configs>>
    /\ Quiet

\* 'changed::window-app-configs'
ConfigChanged(v) ==
    /\ v # appConfigs
    /\ appConfigs' = v
    /\ IF enabled
       THEN _configs' = ParseConfigs(v) /\ SetExt(_updateConfigs(Ext, win, ParseConfigs(v)))
       ELSE _configs' = _configs /\ SetExt(Ext)
    /\ UNCHANGED <<win, activeWs, enabled, savedStates>>
    /\ Quiet

\* the idle callback of enable()
ScanIdle(callShown) ==
    /\ idles # << >> /\ Head(idles).kind = "scan"
    /\ Commit(ScanFrom([Ext EXCEPT !.idles = Tail(@)], 1, win, callShown, _configs, enabled))
    /\ UNCHANGED <<win, activeWs, enabled, appConfigs, savedStates, _configs>>
    /\ Quiet

\* the callback does not test handle.isRestoreApplied
RestoreIdle_ungated ==
    /\ idles # << >> /\ Head(idles).kind = "restore"
    /\ LET c == Head(idles)
           E0 == [Ext EXCEPT !.idles = Tail(@)]
           live == c.w \in DOMAIN _handles /\ _handles[c.w].obj = c.obj
           applied == IF live THEN _handles[c.w].isRestoreApplied ELSE <<c.w, c.obj>> \in dead
           E1 == IF live THEN [E0 EXCEPT !.handles[c.w].isRestoreApplied = TRUE] ELSE [E0 EXCEPT !.dead = @ \cup {<<c.w, c.obj>>}]
           r == RestoreBody(E1, c.w, c.wmClass, c.config, win[c.w], IF enabled THEN savedStates ELSE [x \in {} |-> EmptyState], Others(win, c.w, c.wmClass), activeWs)
       IN  IF win[c.w].workspace = -1
           THEN SetExt(E0) /\ win' = win /\ cmds' = {}
           ELSE SetExt(r.E) /\ win' = [win EXCEPT ![c.w] = r.window] /\ cmds' = r.cmds
    /\ lastSave' = NoSave
    /\ UNCHANGED <<activeWs, enabled, appConfigs, savedStates, _configs, probe>>

\* the idle callback of _applySavedState
RestoreIdle_unmarked ==
    /\ idles # << >> /\ Head(idles).kind = "restore"
    /\ LET c == Head(idles)
           E0 == [Ext EXCEPT !.idles = Tail(@)]
           live == c.w \in DOMAIN _handles /\ _handles[c.w].obj = c.obj
           applied == IF live THEN _handles[c.w].isRestoreApplied ELSE <<c.w, c.obj>> \in dead
           r == RestoreBody(E0, c.w, c.wmClass, c.config, win[c.w], IF enabled THEN savedStates ELSE [x \in {} |-> EmptyState], Others(win, c.w, c.wmClass), activeWs)
       IN  IF applied \/ win[c.w].workspace = -1
           THEN SetExt(E0) /\ win' = win /\ cmds' = {}
           ELSE SetExt(r.E) /\ win' = [win EXCEPT ![c.w] = r.window] /\ cmds' = r.cmds
    /\ lastSave' = NoSave
    /\ UNCHANGED <<activeWs, enabled, appConfigs, savedStates, _configs, probe>>

RestoreIdle ==
    /\ idles # << >> /\ Head(idles).kind = "restore"
    /\ LET c == Head(idles)
           E0 == [Ext EXCEPT !.idles = Tail(@)]
           live == c.w \in DOMAIN _handles /\ _handles[c.w].obj = c.obj
           applied == IF live THEN _handles[c.w].isRestoreApplied ELSE <<c.w, c.obj>> \in dead
           E1 == IF live THEN [E0 EXCEPT !.handles[c.w].isRestoreApplied = TRUE] ELSE [E0 EXCEPT !.dead = @ \cup {<<c.w, c.obj>>}]
           r == RestoreBody(E1, c.w, c.wmClass, c.config, win[c.w], IF enabled THEN savedStates ELSE [x \in {} |-> EmptyState], Others(win, c.w, c.wmClass), activeWs)
       IN  IF applied \/ win[c.w].workspace = -1
           THEN SetExt(E0) /\ win' = win /\ cmds' = {}
           ELSE SetExt(r.E) /\ win' = [win EXCEPT ![c.w] = r.window] /\ cmds' = r.cmds
    /\ lastSave' = NoSave
    /\ UNCHANGED <<activeWs, enabled, appConfigs, savedStates, _configs, probe>>

\* the same callback when get_work_area_for_monitor answers nothing: the
\* flag is set, then _centerWindow or the body returns before any command
RestoreIdleNoArea ==
    /\ idles # << >> /\ Head(idles).kind = "restore"
    /\ LET c == Head(idles)
           E0 == [Ext EXCEPT !.idles = Tail(@)]
           live == c.w \in DOMAIN _handles /\ _handles[c.w].obj = c.obj
           applied == IF live THEN _handles[c.w].isRestoreApplied ELSE <<c.w, c.obj>> \in dead
           E1 == IF live THEN [E0 EXCEPT !.handles[c.w].isRestoreApplied = TRUE] ELSE [E0 EXCEPT !.dead = @ \cup {<<c.w, c.obj>>}]
       IN  IF applied \/ win[c.w].workspace = -1 THEN SetExt(E0) ELSE SetExt(E1)
    /\ win' = win /\ cmds' = {} /\ lastSave' = NoSave
    /\ UNCHANGED <<activeWs, enabled, appConfigs, savedStates, _configs, probe>>

Enable ==
    /\ ~enabled
    /\ enabled' = TRUE
    /\ _configs' = ParseConfigs(appConfigs)
    /\ Commit([Ext EXCEPT !.handles = [w \in {} |-> 0], !.idles = Append(@, ScanClosure)])
    /\ UNCHANGED <<win, activeWs, appConfigs, savedStates>>
    /\ Quiet

\* this._handles.clear() without the _cleanupWindow loop
Disable_clearsOnly ==
    /\ enabled
    /\ enabled' = FALSE
    /\ _configs' = << >>
    /\ SetExt([Ext EXCEPT !.handles = [w \in {} |-> 0]])
    /\ UNCHANGED <<win, activeWs, appConfigs, savedStates>>
    /\ Quiet

Disable ==
    /\ enabled
    /\ enabled' = FALSE
    /\ _configs' = << >>
    /\ SetExt(CleanupFrom(Ext, 1, DOMAIN _handles))
    /\ UNCHANGED <<win, activeWs, appConfigs, savedStates>>
    /\ Quiet

(***************************************************************************)
(* Direct calls of the two pure procedures, on inputs of their own.        *)
(***************************************************************************)
\* _getConfigForWindow(wmClass) on this._configs
MatchCall(wmClass) ==
    /\ probe' = [wmClass |-> wmClass, result |-> _getConfigForWindow(_configs, wmClass)]
    /\ UNCHANGED <<win, activeWs, enabled, appConfigs, savedStates, known, _configs, _handles, sources, idles, notifyIds, signals, emitted, dead, burst, torn, lastSave, cmds>>

\* _findFreePosition(workspace, window, wmClass, targetX, targetY), others
\* being the frame rectangles its filter keeps
FreeCall(others, targetX, targetY) ==
    /\ probe' = [others |-> others, targetX |-> targetX, targetY |-> targetY, result |-> _findFreePosition(others, targetX, targetY)]
    /\ UNCHANGED <<win, activeWs, enabled, appConfigs, savedStates, known, _configs, _handles, sources, idles, notifyIds, signals, emitted, dead, burst, torn, lastSave, cmds>>

\* _performSave(wmClass, x, y, w, h, config, isMaximized, workspaceIndex, minimized, above, sticky)
SnapshotCall(wmClass, rect, config, isMaximized, workspaceIndex, minimized, above, sticky) ==
    /\ LET window == [Unborn EXCEPT !.maximized = isMaximized, !.workspace = workspaceIndex, !.minimized = minimized, !.above = above, !.sticky = sticky]
           r == Snapshot("call", Ext, 1, wmClass, rect, isMaximized, config, window, savedStates, enabled)
       IN  savedStates' = r.states /\ lastSave' = r.call
    /\ UNCHANGED <<win, activeWs, enabled, appConfigs, known, _configs, _handles, sources, idles, notifyIds, signals, emitted, dead, burst, torn, cmds, probe>>

(***************************************************************************)
(* Spec: the life of one window's sessions, from its creation to its       *)
(* unmanaging, under rule edits, WM_CLASS changes and disable()/enable().  *)
(***************************************************************************)
Focus == {1}

SeedState == [EmptyState EXCEPT !.has = {"workspace", "minimized"}, !.workspace = 1]
SeedStores == {[c \in {} |-> EmptyState], [c \in {ClassA} |-> SeedState]}

Init == InitWith(ConfigValues, SeedStores \cup {MalformedStates})

Next ==
    \/ \E w \in Focus, c \in ClassIds \cup {NoClass}, callShown \in BOOLEAN : WindowCreated(w, c, callShown)
    \/ \E w \in Focus, c \in ClassIds, callShown \in BOOLEAN : WmClassChanged(w, c, callShown)
    \/ \E w \in Focus : WindowShown(w)
    \/ \E w \in Focus : SignalRepeated(w)
    \/ \E w \in Focus : WindowUnmanaging(w)
    \/ \E s \in sources : SaveTimeout(s)
    \/ \E s \in sources : SwitchTimeout(s)
    \/ \E v \in ConfigValues : ConfigChanged(v)
    \/ \E callShown \in [Windows -> BOOLEAN] : ScanIdle(callShown)
    \/ RestoreIdle
    \/ Enable
    \/ Disable

Spec == Init /\ [][Next]_vars

(***************************************************************************)
(* SpecRegistry: every window, with at most MaxIdleRegistry idle sources   *)
(* pending and the extension never disabled.                               *)
(***************************************************************************)
RegistryConfigValues == {Json(<< >>), Json(<<RuleBad, RuleAws>>), Json(<<RuleB>>)}

InitRegistry == InitWith(RegistryConfigValues, SeedStores)

RegistryBound == Len(idles') <= MaxIdleRegistry

NextRegistry ==
    \/ \E w \in Windows, c \in ClassIds \cup {NoClass}, callShown \in BOOLEAN : WindowCreated(w, c, callShown) /\ RegistryBound
    \/ \E w \in Windows, c \in ClassIds, callShown \in BOOLEAN : WmClassChanged(w, c, callShown) /\ RegistryBound
    \/ \E w \in Windows : WindowShown(w) /\ RegistryBound
    \/ \E w \in Windows : SignalRepeated(w) /\ RegistryBound
    \/ \E w \in Windows : WindowUnmanaging(w)
    \/ \E s \in sources : SaveTimeout(s)
    \/ \E s \in sources : SwitchTimeout(s)
    \/ \E v \in RegistryConfigValues : ConfigChanged(v)
    \/ \E callShown \in [Windows -> BOOLEAN] : ScanIdle(callShown) /\ RegistryBound
    \/ RestoreIdle

SpecRegistry == InitRegistry /\ [][NextRegistry]_vars

(***************************************************************************)
(* SpecGeometry: one window of a class whose rule restores size, position  *)
(* and maximized state, moved, resized, maximized and closed.              *)
(***************************************************************************)
InitGeometry == InitWith({Json(<<RuleA>>)}, {[c \in {} |-> EmptyState]})

NextGeometry ==
    \/ \E w \in Focus, callShown \in BOOLEAN : WindowCreated(w, ClassA, callShown)
    \/ \E w \in Focus : WindowShown(w)
    \/ \E w \in Focus, r \in FrameRects : FrameChanged(w, r)
    \/ \E w \in Focus : MaximizedChanged(w)
    \/ \E w \in Focus : MinimizedChanged(w)
    \/ \E w \in Focus : SignalRepeated(w)
    \/ \E w \in Focus : WindowUnmanaging(w)
    \/ \E s \in sources : SaveTimeout(s)
    \/ \E callShown \in [Windows -> BOOLEAN] : ScanIdle(callShown)
    \/ RestoreIdle

SpecGeometry == InitGeometry /\ [][NextGeometry]_vars

(***************************************************************************)
(* SpecMatch: _getConfigForWindow on every rule list of at most MaxRules   *)
(* rules and every class identifier of MatchClasses.                       *)
(***************************************************************************)
MatchRules == {Rule(ClassA, FALSE, {}), Rule(ClassAB, FALSE, {}), Rule(<<"a">>, TRUE, {}), Rule(<<"^", "b">>, TRUE, {}), Rule(<<"a", "$">>, TRUE, {}), Rule(<<"(">>, TRUE, {}), Rule(<<"(", "a">>, FALSE, {})}
MatchClasses == {NoClass, ClassA, ClassB, ClassAB, <<"b", "a">>, <<"(", "a">>}
RuleLists == UNION {[1..n -> MatchRules] : n \in 0..MaxRules}

InitMatch == InitWith({Json(list) : list \in RuleLists}, {[c \in {} |-> EmptyState]})

NextMatch == \E wmClass \in MatchClasses : MatchCall(wmClass)

SpecMatch == InitMatch /\ [][NextMatch]_vars

(***************************************************************************)
(* SpecSnapshot: _performSave called again and again on the store, with    *)
(* every rule of SnapshotRules and the inputs below.                       *)
(***************************************************************************)
RectSmall == Rect(100, MIN_COORD, MIN_SIZE, 600)
SnapshotRects == {RectA, RectFull, RectSmall}
SnapshotRules == {Rule(ClassA, FALSE, f) : f \in SUBSET {"restore_size", "restore_pos", "restore_maximized"}}

InitSnapshot == InitWith({Json(<< >>)}, {[c \in {} |-> EmptyState]})

NextSnapshot ==
    \E rect \in SnapshotRects, config \in SnapshotRules, isMaximized \in BOOLEAN :
        SnapshotCall(ClassA, rect, config, isMaximized, 0, FALSE, FALSE, FALSE)

SpecSnapshot == InitSnapshot /\ [][NextSnapshot]_vars

(***************************************************************************)
(* Properties.                                                             *)
(***************************************************************************)
SaveSources(w) == {s \in sources : s.kind = "save" /\ s.w = w}
SwitchSources(w) == {s \in sources : s.kind = "ws" /\ s.w = w}

\* C1: while a session's isRestoreApplied is false none of its events
\* leaves a save timeout pending, and every call of _performSave is made
\* for a session whose isRestoreApplied is true.
C1_SaveOnlyWhenRestoreApplied ==
    /\ \A s \in sources : s.kind = "save" => (s.w \in DOMAIN _handles /\ _handles[s.w].isRestoreApplied)
    /\ \A w \in DOMAIN _handles : ~_handles[w].isRestoreApplied => (_handles[w].timeoutId = 0 /\ burst[w].n = 0)
    /\ lastSave.by # "none" => lastSave.applied

\* a session still waiting for its restore, whose event asked for the
\* restore and scheduled nothing, while the store already holds an entry
C1_Witness ==
    \E w \in DOMAIN _handles :
        /\ ~_handles[w].isRestoreApplied
        /\ HeldBy(Ext, w, _handles[w].obj)
        /\ SaveSources(w) = {}
        /\ win[w].life = "managed"
        /\ _getConfigForWindow(_configs, _handles[w].wmClass) # NoRule

\* C2: after one or more change events of a restored session whose class
\* has a rule, exactly one save timeout is pending for it and it carries
\* the frame rectangle of the last event; the snapshot a timeout performs
\* ends the burst and uses the rectangle of the burst's last event.
C2_BurstIsOneSnapshotOfLastRect ==
    /\ \A w \in DOMAIN _handles :
           burst[w].n >= 1 =>
               /\ Cardinality(SaveSources(w)) = 1
               /\ \A s \in SaveSources(w) : s.rect = burst[w].rect /\ s.id = _handles[w].timeoutId
    /\ lastSave.by = "timeout" =>
           /\ lastSave.burst.n >= 1
           /\ lastSave.rect = lastSave.burst.rect
           /\ SaveSources(lastSave.w) = {}
           /\ burst[lastSave.w].n = 0

\* a burst of two events with different rectangles ended in a snapshot
C2_Witness ==
    /\ lastSave.by = "timeout"
    /\ lastSave.burst.n >= 2
    /\ lastSave.rect = RectFull
    /\ lastSave.changed

GeometryWritten(call) ==
    \E k \in GeometryKeys :
        \/ (k \in call.after.has) # (k \in call.before.has)
        \/ call.after[k] # call.before[k]

\* C3: a call of _performSave with isMaximized true leaves x, y, width and
\* height of the entry as they were and writes maximized only as true; a
\* call with isMaximized false never writes maximized as true.
C3_MaximizedGuardsGeometry ==
    lastSave.by # "none" =>
        /\ lastSave.isMaximized =>
               /\ ~GeometryWritten(lastSave)
               /\ (lastSave.after.maximized # lastSave.before.maximized \/ ("maximized" \in lastSave.after.has) # ("maximized" \in lastSave.before.has))
                      => (lastSave.after.maximized /\ "maximized" \in lastSave.after.has)
        /\ ~lastSave.isMaximized =>
               (lastSave.after.maximized => lastSave.before.maximized)

\* a maximized window is saved under a rule that restores size and position
\* over an entry holding another geometry: only the flag is written
C3_Witness ==
    /\ lastSave.by = "call"
    /\ lastSave.isMaximized
    /\ {"restore_size", "restore_pos", "restore_maximized"} \subseteq lastSave.config.flags
    /\ GeometryKeys \subseteq lastSave.before.has
    /\ lastSave.before.width # lastSave.rect.width
    /\ lastSave.rect.width > MIN_SIZE
    /\ ~lastSave.before.maximized
    /\ lastSave.after.maximized

\* C4: no call of _performSave writes x, y, width or height from a frame
\* rectangle that was read while the window was maximized.
C4_NoGeometryReadWhileMaximized ==
    (lastSave.by # "none" /\ GeometryWritten(lastSave)) => ~lastSave.readMaximized

MatchesRule(c, wmClass) ==
    IF c.is_regex THEN RegExpCompiles(c.wm_class) /\ RegExpTest(c.wm_class, wmClass)
    ELSE c.wm_class = wmClass

\* C5: _getConfigForWindow answers with the first rule, in list order, whose
\* pattern matches the class, and with nothing when no rule matches or the
\* class is empty; a pattern that does not compile matches nothing and does
\* not keep a later rule from being found.
C5_FirstMatchingRule ==
    LET matching == {i \in 1..Len(_configs) : MatchesRule(_configs[i], probe.wmClass)}
    IN  IF probe.wmClass = NoClass \/ matching = {}
        THEN probe.result = NoRule
        ELSE \E i \in matching : (\A j \in matching : i <= j) /\ probe.result = _configs[i]

\* an uncompilable pattern, then two different rules that both match: the
\* first of the two is the answer
C5_Witness ==
    /\ Len(_configs) = 3
    /\ _configs[1].is_regex /\ ~RegExpCompiles(_configs[1].wm_class)
    /\ probe.wmClass # NoClass
    /\ _configs[2] # _configs[3]
    /\ MatchesRule(_configs[2], probe.wmClass) /\ MatchesRule(_configs[3], probe.wmClass)
    /\ probe.result = _configs[2]

\* C6: a session is created with isRestoreApplied false, and once the flag
\* is true it stays true for as long as that session is in the registry.
C6_RestoreAppliedIsMonotone ==
    [][\A w \in Windows :
           /\ (w \in DOMAIN _handles /\ w \in DOMAIN _handles' /\ _handles'[w].obj = _handles[w].obj /\ _handles[w].isRestoreApplied)
                  => _handles'[w].isRestoreApplied
           /\ (w \in DOMAIN _handles' /\ (w \notin DOMAIN _handles \/ _handles'[w].obj # _handles[w].obj))
                  => ~_handles'[w].isRestoreApplied]_vars

\* a restored session that has since had a burst of change events and is
\* still marked restored
C6_Witness ==
    \E w \in DOMAIN _handles : _handles[w].isRestoreApplied /\ burst[w].n >= 2 /\ win[w].life = "managed"

\* C7: once a window has been unmanaged its session is torn down in every
\* case: the window is not in the registry and none of its timeouts is
\* pending.
C7_UnmanagedWindowIsTornDown ==
    \A w \in Windows :
        win[w].life = "gone" => (w \notin DOMAIN _handles /\ SaveSources(w) = {} /\ SwitchSources(w) = {})

\* C8: _cleanupWindow removes both timeouts of the window and its registry
\* entry and touches no other session, on an untracked window it changes
\* nothing, and no timeout is ever pending for a window outside the registry.
C8_CleanupCancelsBothTimers ==
    /\ \A s \in sources : s.w \in DOMAIN _handles
    /\ \A t \in torn : t.w \notin DOMAIN _handles /\ SaveSources(t.w) = {} /\ SwitchSources(t.w) = {}
    /\ \A w \in Windows :
           LET E == _cleanupWindow(Ext, w)
           IN  IF w \notin DOMAIN _handles THEN E = Ext
               ELSE /\ DOMAIN E.handles = (DOMAIN _handles) \ {w}
                    /\ \A v \in DOMAIN E.handles : E.handles[v] = _handles[v]
                    /\ E.sources = {s \in sources : s.w # w}

\* a session was torn down while both of its timeouts were pending
C8_Witness ==
    \E t \in torn : t.timeoutId # 0 /\ t.wsTimeoutId # 0

\* C9: after a change of the rule list, handled by _updateConfigs, every
\* window still in the registry has a class that matches a rule of the new
\* list, every tracked window whose class matches none has been torn down,
\* and no window was added.
C9_RegistryMatchesNewRules ==
    [][(appConfigs' # appConfigs /\ enabled) =>
           /\ _configs' = ParseConfigs(appConfigs')
           /\ DOMAIN _handles' \subseteq DOMAIN _handles
           /\ \A w \in DOMAIN _handles :
                  IF win'[w].wm_class # NoClass /\ \E i \in 1..Len(_configs') : MatchesRule(_configs'[i], win'[w].wm_class)
                  THEN w \in DOMAIN _handles' /\ _handles'[w] = _handles[w]
                  ELSE w \notin DOMAIN _handles' /\ \A s \in sources' : s.w # w]_vars

\* a rule edit tore down a managed window's session and kept another one
C9_Witness ==
    /\ enabled
    /\ \E t \in torn : win[t.w].life = "managed"
    /\ \E w \in DOMAIN _handles : win[w].life = "managed"

\* C10: a session never has more than one save timeout nor more than one
\* workspace-switch timeout pending, and its handle holds the id of the
\* pending one, or 0 when none is pending.
C10_AtMostOneTimerOfEachKind ==
    \A w \in Windows :
        /\ Cardinality(SaveSources(w)) <= 1
        /\ Cardinality(SwitchSources(w)) <= 1
        /\ w \in DOMAIN _handles =>
               /\ SaveSources(w) = {s \in sources : s.id = _handles[w].timeoutId /\ s.id # 0}
               /\ SwitchSources(w) = {s \in sources : s.id = _handles[w].wsTimeoutId /\ s.id # 0}

\* a second change event replaced the pending save timeout while the
\* workspace-switch timeout of the restore was still pending
C10_Witness ==
    \E w \in DOMAIN _handles :
        /\ burst[w].n >= 2
        /\ Cardinality(SaveSources(w)) = 1
        /\ Cardinality(SwitchSources(w)) = 1

\* C11: _onWindowCreated on a tracked window changes nothing, and whatever
\* 'window-created' reports, scans and notify::wm-class emissions happened,
\* a window has at most one handle with connected handlers, the one in the
\* registry.
C11_OneSessionPerWindow ==
    /\ \A w \in Windows :
           /\ signals[w] <= 1
           /\ signals[w] = 1 <=> w \in DOMAIN _handles
    /\ \A w \in DOMAIN _handles : \A callShown \in BOOLEAN :
           _onWindowCreated(Ext, w, win[w], callShown, _configs, enabled) = Ext

\* a window was reported twice before its class was known, and the emission
\* of notify::wm-class ran both handlers and left one session
C11_Witness ==
    /\ emitted = 2
    /\ \E w \in DOMAIN _handles : signals[w] = 1 /\ notifyIds[w] = 0 /\ ~_handles[w].isRestoreApplied

\* C12: immediately after disable() the registry is empty, no save timeout
\* and no workspace-switch timeout is pending, and no handle has handlers
\* connected.
C12_DisableTearsEverythingDown ==
    [][(enabled /\ ~enabled') =>
           /\ DOMAIN _handles' = {}
           /\ sources' = {}
           /\ \A w \in Windows : signals'[w] = 0
           /\ {t.w : t \in torn'} = DOMAIN _handles]_vars

\* disable() tore down a session whose two timeouts were both pending
C12_Witness ==
    /\ ~enabled
    /\ \E t \in torn : t.timeoutId # 0 /\ t.wsTimeoutId # 0
    /\ sources = {}

(***************************************************************************)
(* SpecSnapshotFlags: _performSave under the rule without flags, the rules *)
(* with one flag and the rule with all of them, on a store left by an      *)
(* earlier run in which every field differs from the window's.             *)
(***************************************************************************)
FullState == [has |-> GeometryKeys \cup {"workspace", "maximized", "minimized", "above", "sticky"}, x |-> 0, y |-> 0, width |-> 1920, height |-> 1080, workspace |-> 1, maximized |-> TRUE, minimized |-> TRUE, above |-> TRUE, sticky |-> TRUE]
FlagStores == {[c \in {} |-> EmptyState], [c \in {ClassA} |-> FullState], [c \in {ClassA, ClassB} |-> FullState]}
FlagRules == {Rule(ClassA, FALSE, f) : f \in {{}, RestoreFlags} \cup {{x} : x \in RestoreFlags}}

InitSnapshotFlags == InitWith({Json(<< >>)}, FlagStores)

NextSnapshotFlags ==
    \E config \in FlagRules, isMaximized \in BOOLEAN, workspaceIndex \in {-1, 0} :
        SnapshotCall(ClassA, RectA, config, isMaximized, workspaceIndex, FALSE, FALSE, FALSE)

SpecSnapshotFlags == InitSnapshotFlags /\ [][NextSnapshotFlags]_vars

FlagOfKey(key) ==
    CASE key \in {"width", "height"} -> "restore_size"
      [] key \in {"x", "y"} -> "restore_pos"
      [] OTHER -> CHOOSE f \in RestoreFlags : <<f, key>> \in {<<"restore_maximized", "maximized">>, <<"restore_workspace", "workspace">>, <<"restore_minimized", "minimized">>, <<"restore_above", "above">>, <<"restore_sticky", "sticky">>}

KeyWritten(call, key) ==
    \/ (key \in call.after.has) # (key \in call.before.has)
    \/ call.after[key] # call.before[key]

\* C13: a call of _performSave changes a field of the class's entry only
\* when the rule has the flag of that field, and with no restore flag in
\* the rule leaves the store as it was and writes nothing.
C13_OnlyFlaggedFieldsWritten ==
    [][lastSave'.by # "none" =>
           /\ \A key \in FullState.has : KeyWritten(lastSave', key) => FlagOfKey(key) \in lastSave'.config.flags
           /\ lastSave'.after = StateOf(savedStates', lastSave'.wmClass)
           /\ lastSave'.before = StateOf(savedStates, lastSave'.wmClass)
           /\ (lastSave'.config.flags \cap RestoreFlags = {}) => (savedStates' = savedStates /\ ~lastSave'.changed)]_vars

\* under a rule that only restores the minimized state a window that
\* differs from the entry in every field is saved: only minimized changes
C13_Witness ==
    /\ lastSave.by = "call"
    /\ lastSave.config.flags = {"restore_minimized"}
    /\ lastSave.before.has = FullState.has
    /\ lastSave.before.width # lastSave.rect.width /\ lastSave.before.x # lastSave.rect.x
    /\ lastSave.before.workspace # lastSave.workspaceIndex /\ lastSave.workspaceIndex # -1
    /\ lastSave.before.maximized # lastSave.isMaximized
    /\ lastSave.before.minimized # lastSave.minimized
    /\ lastSave.after.minimized = lastSave.minimized
    /\ ClassB \in DOMAIN savedStates

\* C14: a call of _performSave writes window-app-states only when a field
\* of the class's entry changes.
C14_WriteOnlyWhenAFieldChanges ==
    (lastSave.by # "none" /\ lastSave.changed) => lastSave.after # lastSave.before

(***************************************************************************)
(* SpecRestore: the restoration of two windows of one class, one after the *)
(* other, under one rule and a store an earlier run left.  The frame and   *)
(* the maximized state of a window change only before its restoration.     *)
(***************************************************************************)
RectB == Rect(104, 104, 640, 480)
RestoreRects == {RectA, RectB}
SavedPoints == {<<100, 100>>, <<-5000, 100>>, <<-50, -50>>, <<-51, 100>>, <<1870, 1030>>, <<100, 1031>>, <<560, 400>>}
SavedSizes == {<<800, 600>>, <<400, 300>>}
GeometryState(p, z) == [EmptyState EXCEPT !.has = GeometryKeys, !.x = p[1], !.y = p[2], !.width = z[1], !.height = z[2]]
RestoreStores == {[c \in {} |-> EmptyState]} \cup {[c \in {ClassA} |-> GeometryState(p, z)] : p \in SavedPoints, z \in SavedSizes}
RestoreRules == {Rule(ClassA, FALSE, f) : f \in {{}, {"switch_to_workspace"}, {"restore_pos"}, {"restore_size", "restore_pos"}, {"restore_size", "restore_pos", "restore_maximized"}}}

InitRestore == InitWith({Json(<<c>>) : c \in RestoreRules}, RestoreStores)

Pending(w) == w \in DOMAIN _handles /\ ~_handles[w].isRestoreApplied

NextRestore ==
    \/ \E w \in Windows, callShown \in BOOLEAN : WindowCreated(w, ClassA, callShown)
    \/ \E w \in Windows : WindowShown(w)
    \/ \E w \in Windows, r \in RestoreRects : Pending(w) /\ FrameChanged(w, r)
    \/ \E w \in Windows : Pending(w) /\ MaximizedChanged(w)
    \/ \E callShown \in [Windows -> BOOLEAN] : ScanIdle(callShown)
    \/ RestoreIdle

SpecRestore == InitRestore /\ [][NextRestore]_vars

\* the step runs the restoration of window w: the idle callback at the head
\* of the queue passes its gate and sets isRestoreApplied
Restored(w) ==
    /\ idles # << >> /\ Head(idles).kind = "restore" /\ Head(idles).w = w
    /\ Pending(w)
    /\ w \in DOMAIN _handles' /\ _handles'[w].isRestoreApplied

\* C15: under a rule without a restore flag the restoration only moves the
\* window to the centre of the work area, x = area.x + (area.width - w) / 2
\* and y likewise (560 for a width of 800 in a work area 1920 wide): size,
\* workspace and state flags stay, and move_frame is the only command.
C15_NoFlagOnlyCentres ==
    [][\A w \in Windows :
           (Restored(w) /\ Head(idles).config.flags \cap RestoreFlags = {}) =>
               /\ win'[w] = [win[w] EXCEPT !.rect.x = WorkArea.x + (WorkArea.width - win[w].rect.width) \div 2,
                                           !.rect.y = WorkArea.y + (WorkArea.height - win[w].rect.height) \div 2]
               /\ (WorkArea.width = 1920 /\ win[w].rect.width = 800) => win'[w].rect.x = 560
               /\ cmds' = {"move_frame"}
               /\ sources' = sources
               /\ activeWs' = activeWs]_vars

\* a window 800 wide was centred at x = 560 although the store holds a
\* geometry for its class
C15_Witness ==
    /\ cmds = {"move_frame"}
    /\ ClassA \in DOMAIN savedStates /\ savedStates[ClassA].x # 560
    /\ _configs[1].flags \cap RestoreFlags = {}
    /\ \E w \in DOMAIN _handles : _handles[w].isRestoreApplied /\ win[w].rect = Rect(560, 240, 800, 600)

NoSiblingNear(w, x, y) ==
    \A v \in Windows \ {w} :
        (win[v].life = "managed" /\ win[v].wm_class = win[w].wm_class)
            => Abs(win[v].rect.x - x) + Abs(win[v].rect.y - y) >= TOLERANCE

\* C16: with the entry {x: 100, y: 100, width: 800, height: 600}, a rule
\* with restore_size and restore_pos, a window that is not maximized and no
\* window of the class at (100, 100), the restoration moves and resizes the
\* window to exactly (100, 100, 800, 600).
C16_SavedGeometryIsApplied ==
    [][\A w \in Windows :
           (/\ Restored(w)
            /\ {"restore_size", "restore_pos"} \subseteq Head(idles).config.flags
            /\ StateOf(savedStates, Head(idles).wmClass) = GeometryState(<<100, 100>>, <<800, 600>>)
            /\ ~win[w].maximized
            /\ NoSiblingNear(w, 100, 100))
           => (win'[w].rect = Rect(100, 100, 800, 600) /\ cmds' = {"move_resize_frame"})]_vars

\* a window restored to (100, 100, 800, 600) under a rule with restore_size
\* and restore_pos
C16_Witness ==
    /\ cmds = {"move_resize_frame"}
    /\ {"restore_size", "restore_pos"} \subseteq _configs[1].flags
    /\ StateOf(savedStates, ClassA) = GeometryState(<<100, 100>>, <<800, 600>>)
    /\ \E w \in DOMAIN _handles : _handles[w].isRestoreApplied /\ ~win[w].maximized /\ win[w].rect = Rect(100, 100, 800, 600)

\* C17: the restoration uses the saved position exactly when
\* area.x - 50 <= x <= area.x + area.width - 50 and
\* area.y - 50 <= y <= area.y + area.height - 50; any other saved position
\* is dropped for the centre of the work area computed from the target
\* size.  Stated for restorations that apply the geometry with no window
\* of the class near the position.
C17_SavedPositionOnlyInsideWorkArea ==
    [][\A w \in Windows :
           LET config == Head(idles).config
               state == StateOf(savedStates, Head(idles).wmClass)
               accepted == /\ WorkArea.x - 50 <= state.x /\ state.x <= WorkArea.x + WorkArea.width - 50
                           /\ WorkArea.y - 50 <= state.y /\ state.y <= WorkArea.y + WorkArea.height - 50
               size == win'[w].rect
               x == IF accepted THEN state.x ELSE WorkArea.x + (WorkArea.width - size.width) \div 2
               y == IF accepted THEN state.y ELSE WorkArea.y + (WorkArea.height - size.height) \div 2
           IN  (/\ Restored(w)
                /\ "restore_pos" \in config.flags
                /\ {"x", "y"} \subseteq state.has
                /\ ~win[w].maximized \/ "restore_maximized" \in config.flags
                /\ NoSiblingNear(w, x, y))
               => (win'[w].rect.x = x /\ win'[w].rect.y = y /\ "move_resize_frame" \in cmds')]_vars

\* the saved x is -5000: the window gets the saved size 400x300 and the
\* centre computed from it
C17_Witness ==
    /\ "move_resize_frame" \in cmds
    /\ {"restore_size", "restore_pos"} \subseteq _configs[1].flags
    /\ StateOf(savedStates, ClassA) = GeometryState(<<-5000, 100>>, <<400, 300>>)
    /\ \E w \in DOMAIN _handles : _handles[w].isRestoreApplied /\ win[w].rect = Rect(760, 390, 400, 300)

(***************************************************************************)
(* SpecFree: _findFreePosition for targets of FreeTargets among windows of *)
(* the class that stand on the diagonal of the target, every 50 pixels,    *)
(* the whole row shifted by one of FreeShifts.                             *)
(***************************************************************************)
FreeTargets == {<<560, 400>>, <<0, 0>>, <<-40, 1000>>}
FreeRows == {0..(n - 1) : n \in {0, 1, 2, 3, 49, 50, 51}} \cup {{1}, {0, 2}, {0, 1, 3}}
FreeShifts == {<<0, 0>>, <<9, 0>>, <<10, 0>>, <<-4, 5>>, <<5, 5>>}
Row(t, ks, d) == {Rect(t[1] + OFFSET_STEP * k + d[1], t[2] + OFFSET_STEP * k + d[2], 800, 600) : k \in ks}

InitFree == InitWith({Json(<< >>)}, {[c \in {} |-> EmptyState]})

NextFree == \E t \in FreeTargets, ks \in FreeRows, d \in FreeShifts : FreeCall(Row(t, ks, d), t[1], t[2])

SpecFree == InitFree /\ [][NextFree]_vars

\* C18: _findFreePosition answers target + k * (50, 50) for the least k in
\* 0..49 at which no window of the row has its top-left corner at a
\* Manhattan distance of less than 10 from the candidate, and for k = 50
\* when all fifty candidates collide; a window at (560, 400) moves the
\* target (560, 400) to (610, 450).
C18_FirstFreeDiagonalStep ==
    "others" \in DOMAIN probe =>
        LET collides(k) == \E o \in probe.others :
                Abs(o.x - (probe.targetX + 50 * k)) + Abs(o.y - (probe.targetY + 50 * k)) < 10
            free == {k \in 0..49 : ~collides(k)}
            k == IF free = {} THEN 50 ELSE CHOOSE i \in free : \A j \in free : i <= j
        IN  /\ probe.result = <<probe.targetX + 50 * k, probe.targetY + 50 * k>>
            /\ (probe.others = {Rect(560, 400, 800, 600)} /\ probe.targetX = 560 /\ probe.targetY = 400)
                   => probe.result = <<610, 450>>

\* the target (560, 400) with one window at (560, 400)
C18_Witness ==
    /\ "others" \in DOMAIN probe
    /\ probe.others = {Rect(560, 400, 800, 600)}
    /\ probe.targetX = 560 /\ probe.targetY = 400
    /\ probe.result = <<610, 450>>

InList(list, c) == \E i \in 1..Len(list) : list[i] = c

\* strictly ascending by UTF-16 code units: sorted and without duplicates
Ascending(list) == \A i \in 1..(Len(list) - 1) : StrLess(list[i], list[i + 1])

\* C19: while the extension is enabled, the class of a window that is
\* created with a class, of a window whose class becomes available to a
\* connected notify::wm-class handler, and of every untracked window the scan
\* of enable() finds, is in known-wm-classes afterwards, whether a rule matches
\* it or not; the list never loses a class, and recording keeps it sorted
\* and free of duplicates and leaves it as it is when the class is in it.
C19_KnownClassesRecorded ==
    [][/\ \A w \in Windows :
              (enabled /\ enabled' /\ win'[w].wm_class # NoClass /\ win'[w].life = "managed") =>
                  /\ win[w].life = "unborn" => InList(known', win'[w].wm_class)
                  /\ (win[w].life = "managed" /\ win[w].wm_class = NoClass /\ notifyIds[w] > 0) => InList(known', win'[w].wm_class)
                  /\ (w \notin DOMAIN _handles /\ idles # << >> /\ Head(idles).kind = "scan" /\ idles' # idles /\ Len(idles') <= Len(idles)) => InList(known', win'[w].wm_class)
       /\ \A i \in 1..Len(known) : InList(known', known[i])
       /\ Ascending(known')
       /\ \A c \in {ClassA, ClassB, ClassAB, <<"b", "a">>} :
              LET E == _recordWmClass(Ext, c, TRUE)
              IN  /\ Ascending(E.known)
                  /\ {E.known[i] : i \in 1..Len(E.known)} = {known[i] : i \in 1..Len(known)} \cup {c}
                  /\ InList(known, c) => E.known = known]_vars

\* both classes are known, recorded for a window no rule matches
C19_Witness ==
    /\ enabled
    /\ known = <<ClassA, ClassB>>
    /\ \E w \in Windows :
           /\ win[w].life = "managed" /\ win[w].wm_class # NoClass
           /\ w \notin DOMAIN _handles
           /\ _getConfigForWindow(_configs, win[w].wm_class) = NoRule

(***************************************************************************)
(* SpecReopen: windows of one class open, are maximized and unmaximized,   *)
(* moved and closed, one after or beside the other, under one rule and     *)
(* starting from an empty store.                                           *)
(***************************************************************************)
ReopenRules == {Rule(ClassA, FALSE, f) : f \in {{"restore_maximized"}, {"restore_size", "restore_pos", "restore_maximized"}, {"restore_size", "restore_pos"}}}

InitReopen == InitWith({Json(<<c>>) : c \in ReopenRules}, {[c \in {} |-> EmptyState]})

NextReopen ==
    \/ \E w \in Windows, callShown \in BOOLEAN : WindowCreated(w, ClassA, callShown)
    \/ \E w \in Windows : WindowShown(w)
    \/ \E w \in Windows : MaximizedChanged(w)
    \/ \E w \in Windows, r \in {RectA, RectFull} : FrameChanged(w, r)
    \/ \E s \in sources : SaveTimeout(s)
    \/ \E w \in Windows : WindowUnmanaging(w)
    \/ \E callShown \in [Windows -> BOOLEAN] : ScanIdle(callShown)
    \/ RestoreIdle

SpecReopen == InitReopen /\ [][NextReopen]_vars

\* the stored entry of the class says the window was maximized
SavedMaximized(states, wmClass) ==
    LET state == StateOf(states, wmClass) IN "maximized" \in state.has /\ state.maximized

RectLeft == Rect(-100, 100, 800, 600)
PositionRects == {RectA, RectB, RectLeft}
PositionRules == {Rule(ClassA, FALSE, f) : f \in {{"restore_pos"}, {"restore_size", "restore_pos"}}}

InitPosition == InitWith({Json(<<c>>) : c \in PositionRules}, {[c \in {} |-> EmptyState]})

NextPosition ==
    \/ \E w \in Windows, callShown \in BOOLEAN : WindowCreated(w, ClassA, callShown)
    \/ \E w \in Windows : WindowShown(w)
    \/ \E w \in Windows, r \in PositionRects : FrameChanged(w, r)
    \/ \E w \in Windows : MaximizedChanged(w)
    \/ \E s \in sources : SaveTimeout(s)
    \/ \E w \in Windows : WindowUnmanaging(w)
    \/ \E callShown \in [Windows -> BOOLEAN] : ScanIdle(callShown)
    \/ RestoreIdle

SpecPosition == InitPosition /\ [][NextPosition]_vars

\* the entry of the class holds the frame position window v had when it was
\* unmanaged
SavedAtClose(v) ==
    LET state == StateOf(savedStates, win[v].wm_class)
    IN  /\ win[v].life = "gone" /\ ~win[v].maximized
        /\ {"x", "y"} \subseteq state.has
        /\ state.x = win[v].rect.x /\ state.y = win[v].rect.y

CentredFrame(w) ==
    Rect(WorkArea.x + (WorkArea.width - win[w].rect.width) \div 2,
         WorkArea.y + (WorkArea.height - win[w].rect.height) \div 2,
         win[w].rect.width, win[w].rect.height)

HasEntry(v, wmClass) == \E i \in 1..Len(ParseConfigs(v)) : ParseConfigs(v)[i].wm_class = wmClass

\* C23: when the rule of a class is added to a list that had none (as it is
\* after removing it), the store holds no saved geometry of that class.
C23_ReAddedRuleStartsWithoutGeometry ==
    [][\A c \in ClassIds :
           (appConfigs.ok /\ ~HasEntry(appConfigs, c) /\ HasEntry(appConfigs', c)) =>
               StateOf(savedStates', c).has \cap GeometryKeys = {}]_vars

\* isRestoreApplied of the handle a restore closure captured, in the
\* registry or not
Applied(c) ==
    IF c.w \in DOMAIN _handles /\ _handles[c.w].obj = c.obj THEN _handles[c.w].isRestoreApplied
    ELSE <<c.w, c.obj>> \in dead

RestoreClosures(queue) == {queue[i] : i \in {k \in 1..Len(queue) : queue[k].kind = "restore"}}

\* C24: the restoration body runs at most once per session. Commands are
\* issued only by an idle callback whose session has isRestoreApplied false,
\* and that step sets it for every callback of the session still pending;
\* once set it stays set; and _applySavedState on a session with
\* isRestoreApplied true adds no idle source and changes nothing.
C24_RestorationBodyRunsOnce ==
    [][/\ (cmds' # {} \/ (win' # win /\ idles # << >> /\ Len(idles') < Len(idles) /\ Head(idles).kind = "restore")) =>
              /\ idles # << >> /\ Head(idles).kind = "restore"
              /\ ~Applied(Head(idles))
              /\ \A c \in RestoreClosures(idles') : (c.w = Head(idles).w /\ c.obj = Head(idles).obj) => Applied(c)'
       /\ \A c \in RestoreClosures(idles) \cap RestoreClosures(idles') : Applied(c) => Applied(c)'
       /\ \A w \in DOMAIN _handles : _handles[w].isRestoreApplied =>
              /\ \A i \in 1..Len(_configs) : _applySavedState(Ext, w, _handles[w].wmClass, _configs[i]) = Ext
              /\ handleWindowShown(Ext, w, _configs) = Ext
              /\ handleWindowChange(Ext, w, win[w], _configs).idles = idles]_vars

\* the first callback of a session has just issued its commands while a
\* second request of the same session is still pending
C24_Witness ==
    /\ cmds # {}
    /\ \E c \in RestoreClosures(idles) :
           /\ c.w \in DOMAIN _handles /\ _handles[c.w].obj = c.obj
           /\ _handles[c.w].isRestoreApplied

\* C25: the debounced save passes to _performSave the maximized, workspace,
\* minimized, above and sticky values the window had at the change event at
\* which the saved frame rectangle was read.
C25_SavedStateIsOfTheLastEvent ==
    lastSave.by = "timeout" =>
        /\ lastSave.rect = lastSave.burst.rect
        /\ [k \in DOMAIN lastSave.burst.state |-> lastSave[k]] = lastSave.burst.state

\* C26: a debounced save writes only the fields enabled in the rule that
\* matches the session's class when the timer fires, whatever rule matched
\* when the change event occurred.
C26_TimerSavesUnderCurrentRule ==
    (lastSave.by = "timeout" /\ _getConfigForWindow(_configs, lastSave.wmClass) # NoRule) =>
        \A key \in FullState.has :
            KeyWritten(lastSave, key) => FlagOfKey(key) \in _getConfigForWindow(_configs, lastSave.wmClass).flags

(***************************************************************************)
(* SpecNoArea: restorations during which the work-area query may answer    *)
(* nothing.                                                                *)
(***************************************************************************)
NextNoArea ==
    \/ \E w \in Windows, callShown \in BOOLEAN : WindowCreated(w, ClassA, callShown)
    \/ \E w \in Windows : WindowShown(w)
    \/ \E w \in Windows, r \in RestoreRects : FrameChanged(w, r)
    \/ \E s \in sources : SaveTimeout(s)
    \/ \E w \in Windows : WindowUnmanaging(w)
    \/ \E callShown \in [Windows -> BOOLEAN] : ScanIdle(callShown)
    \/ RestoreIdle
    \/ RestoreIdleNoArea

SpecNoArea == InitPosition /\ [][NextNoArea]_vars

\* C27: a restoration attempt on a pending session that issues no move or
\* resize command, as when the workspace or the work-area query answers
\* nothing, leaves the session pending, so that the next change event
\* attempts the restoration again.
C27_AbortedAttemptStaysPending ==
    [][\A w \in Windows :
           (/\ Pending(w) /\ idles # << >> /\ idles' = Tail(idles)
            /\ Head(idles).kind = "restore" /\ Head(idles).w = w
            /\ cmds' \cap {"move_frame", "move_resize_frame"} = {}) =>
               Pending(w)']_vars

\* the frame the restoration gives a window created at RectA, with the entry
\* (x, y, width, height) = (p, z) under the flags f, among the siblings others
FrameAfterRestore(f, p, z, others) ==
    RestoreBody(Ext, 1, ClassA, Rule(ClassA, FALSE, f),
                [Unborn EXCEPT !.life = "managed", !.wm_class = ClassA, !.rect = RectA, !.workspace = activeWs],
                [c \in {ClassA} |-> GeometryState(p, z)], others, activeWs).window.rect

\* C28: the position the restoration applies is the one _findFreePosition
\* returns, clamped: its top-left corner has x <= area.x + area.width - 50
\* and y <= area.y + area.height - 50, for every saved state, size and set
\* of siblings, also when all 50 candidates collide.
C28_AppliedPositionIsClamped ==
    "others" \in DOMAIN probe =>
        \A f \in {{"restore_pos"}, {"restore_size"}, {"restore_size", "restore_pos"}}, z \in SavedSizes :
            LET rect == FrameAfterRestore(f, <<probe.targetX, probe.targetY>>, z, probe.others)
            IN  /\ rect.x <= WorkArea.x + WorkArea.width - 50
                /\ rect.y <= WorkArea.y + WorkArea.height - 50
                /\ "restore_pos" \in f =>
                       /\ rect.x = IF probe.result[1] > 1870 THEN 1870 ELSE probe.result[1]
                       /\ rect.y = IF probe.result[2] > 1030 THEN 1030 ELSE probe.result[2]

\* all 50 candidates from (560,400) collide and the position returned,
\* (3060,2900), lies outside the work area
C28_Witness ==
    /\ "others" \in DOMAIN probe
    /\ probe.targetX = 560 /\ probe.targetY = 400
    /\ Cardinality(probe.others) >= 50
    /\ probe.result = <<3060, 2900>>
    /\ FrameAfterRestore({"restore_pos"}, <<560, 400>>, <<800, 600>>, probe.others).x = 1870

\* what the restore callback at the head of the idle queue computes for its
\* window in this state
BodyAtHead ==
    LET c == Head(idles)
    IN  RestoreBody(Ext, c.w, c.wmClass, c.config, win[c.w],
                    IF enabled THEN savedStates ELSE [x \in {} |-> EmptyState],
                    Others(win, c.w, c.wmClass), activeWs)

\* the frame the body aims at: the target size at the target position, after
\* collision resolution and clamping
TargetFrame ==
    LET c == Head(idles)
        state == StateOf(savedStates, c.wmClass)
        size == TargetSize(c.config, state, win[c.w].rect)
        pos == TargetPosition(c.config, state, size, WorkArea)
        t == Clamp(_findFreePosition(Others(win, c.w, c.wmClass), pos.x, pos.y), WorkArea)
    IN  Rect(t.x, t.y, size.width, size.height)

MoveCommands == {"move_frame", "move_resize_frame"}

\* C29: a window that is maximized when its restoration runs, under a rule
\* without restore_maximized, gets no unmaximize and no move or resize
\* command and keeps its maximized state and frame; in every other case it
\* is unmaximized if it was maximized and then moved.
C29_MaximizedWindowLeftAlone ==
    [][\A w \in Windows :
           Restored(w) =>
               IF win[w].maximized /\ "restore_maximized" \notin Head(idles).config.flags
               THEN /\ cmds' \cap (MoveCommands \cup {"unmaximize"}) = {}
                    /\ win'[w].maximized /\ win'[w].rect = win[w].rect
               ELSE /\ cmds' \cap MoveCommands # {}
                    /\ "unmaximize" \in cmds' <=> win[w].maximized]_vars

\* C29 as amended: the same under a rule with a restoration axis, the move
\* being move_resize_frame to the target frame, after the unmaximize.
C29_GeometryStepRespectsMaximized ==
    [][\A w \in Windows :
           (Restored(w) /\ Head(idles).config.flags \cap RestoreFlags # {}) =>
               /\ cmds' = {BodyAtHead.seq[i] : i \in 1..Len(BodyAtHead.seq)}
               /\ IF win[w].maximized /\ "restore_maximized" \notin Head(idles).config.flags
                  THEN /\ cmds' \cap (MoveCommands \cup {"unmaximize"}) = {}
                       /\ win'[w].maximized /\ win'[w].rect = win[w].rect
                  ELSE /\ "unmaximize" \in cmds' <=> win[w].maximized
                       /\ BodyAtHead.seq[IF win[w].maximized THEN 2 ELSE 1] = "move_resize_frame"
                       /\ win[w].maximized => BodyAtHead.seq[1] = "unmaximize"
                       /\ win'[w].rect = TargetFrame]_vars

\* a maximized window under a rule with restore_maximized has just been
\* unmaximized and moved to the saved frame
C29_Witness ==
    /\ cmds = {"unmaximize", "move_resize_frame"}
    /\ "restore_maximized" \in _configs[1].flags
    /\ \E w \in DOMAIN _handles :
           /\ _handles[w].isRestoreApplied /\ ~win[w].maximized
           /\ ClassA \in DOMAIN savedStates
           /\ win[w].rect.width = savedStates[ClassA].width

(***************************************************************************)
(* SpecRestoreFlags: the restorations of SpecRestore under rules with no,  *)
(* one or every restore flag and stores with no, some or every saved       *)
(* value.                                                                  *)
(***************************************************************************)
\* an entry without a saved above, with sticky and maximized saved as false
MixedState == [FullState EXCEPT !.has = @ \ {"above"}, !.sticky = FALSE, !.maximized = FALSE]

InitRestoreFlags == InitWith({Json(<<c>>) : c \in FlagRules}, FlagStores \cup {[c \in {ClassA} |-> MixedState]})

SpecRestoreFlags == InitRestoreFlags /\ [][NextRestore]_vars

\* the place of a command in the order of the restoration body
Rank(cmd) ==
    CASE cmd = "unmaximize" -> 0
      [] cmd \in MoveCommands -> 1
      [] cmd = "change_workspace" -> 2
      [] cmd \in {"stick", "unstick"} -> 3
      [] cmd \in {"make_above", "unmake_above"} -> 4
      [] cmd \in {"minimize", "unminimize"} -> 5
      [] cmd = "maximize" -> 6

\* C30: the restoration issues the sticky, above and minimized commands and
\* maximize only under the rule flag of the axis and with a saved value of
\* it (for maximize, the value true), in the order sticky, above, minimized,
\* maximize; maximize comes after the move/resize, and with the flag and a
\* saved maximized of true the restoration ends with the window maximized.
C30_StateCommandsGatedAndOrdered ==
    [][\A w \in Windows :
           Restored(w) =>
               LET config == Head(idles).config
                   state == StateOf(savedStates, Head(idles).wmClass)
                   seq == BodyAtHead.seq
                   gated(flag, key, on, off) ==
                       /\ (on \in cmds' \/ off \in cmds') => (flag \in config.flags /\ key \in state.has)
                       /\ on \in cmds' => state[key]
                       /\ off \in cmds' => ~state[key]
               IN  /\ cmds' = {seq[i] : i \in 1..Len(seq)}
                   /\ gated("restore_sticky", "sticky", "stick", "unstick")
                   /\ gated("restore_above", "above", "make_above", "unmake_above")
                   /\ gated("restore_minimized", "minimized", "minimize", "unminimize")
                   /\ "maximize" \in cmds' => ("restore_maximized" \in config.flags /\ "maximized" \in state.has /\ state.maximized)
                   /\ \A i, j \in 1..Len(seq) : i < j => Rank(seq[i]) < Rank(seq[j])
                   /\ ("restore_maximized" \in config.flags /\ "maximized" \in state.has /\ state.maximized) =>
                          /\ seq[Len(seq)] = "maximize"
                          /\ \E i \in 1..Len(seq) : seq[i] = "move_resize_frame"
                          /\ win'[w].maximized]_vars

\* a restoration has just issued the commands of all four axes after the
\* move/resize
C30_Witness ==
    /\ {"move_resize_frame", "stick", "make_above", "minimize", "maximize"} \subseteq cmds
    /\ \E w \in DOMAIN _handles : _handles[w].isRestoreApplied /\ win[w].maximized /\ win[w].sticky

(***************************************************************************)
(* Workspace restoration and the workspace-switch timer.                   *)
(***************************************************************************)
SavedWorkspaces == {-1, 0, 1, 2}

WorkspaceStore(ws) == [c \in {ClassA} |-> [EmptyState EXCEPT !.has = {"workspace"}, !.workspace = ws]]

\* C31: a restoration commands change_workspace only under restore_workspace
\* with a saved index that is present, not -1 and an existing workspace; it
\* starts a workspace-switch timer only if in addition switch_to_workspace is
\* set and that workspace is not the active one; the active workspace changes
\* only in the step in which such a timer of a live session fires, and no
\* switch timer outlives the teardown of its session.
C31_WorkspaceMoveAndSwitchGated ==
    [][   /\ "change_workspace" \in cmds' =>
              LET c == Head(idles)
                  state == StateOf(IF enabled THEN savedStates ELSE [x \in {} |-> EmptyState], c.wmClass)
              IN  /\ "restore_workspace" \in c.config.flags
                  /\ "workspace" \in state.has /\ state.workspace # -1 /\ state.workspace \in Workspaces
                  /\ win'[c.w].workspace = state.workspace
          /\ \A s \in sources' \ sources :
                 s.kind = "ws" =>
                     /\ "change_workspace" \in cmds'
                     /\ "switch_to_workspace" \in Head(idles).config.flags
                     /\ s.ws = win'[s.w].workspace /\ s.ws # activeWs
                     /\ activeWs' = activeWs
          /\ activeWs' # activeWs =>
                 \E s \in sources \ sources' :
                     /\ s.kind = "ws" /\ activeWs' = s.ws
                     /\ s.w \in DOMAIN _handles /\ _handles[s.w].wsTimeoutId = s.id
          /\ \A s \in sources' : s.kind = "ws" => s.w \in DOMAIN _handles' /\ _handles'[s.w].wsTimeoutId = s.id
          /\ \A w \in DOMAIN _handles, ws \in SavedWorkspaces, flags \in SUBSET {"restore_workspace", "switch_to_workspace"} :
                 LET r == RestoreBody(Ext, w, ClassA, Rule(ClassA, FALSE, flags), win[w], WorkspaceStore(ws), {}, activeWs)
                     move == "restore_workspace" \in flags /\ ws # -1 /\ ws \in Workspaces
                 IN  /\ "change_workspace" \in r.cmds <=> move
                     /\ IF move /\ "switch_to_workspace" \in flags /\ ws # activeWs
                        THEN \E s \in r.E.sources : s.kind = "ws" /\ s.w = w /\ s.ws = ws /\ s.id = r.E.handles[w].wsTimeoutId
                        ELSE r.E = Ext]_vars

\* the saved workspace 1 was activated by the timer of a restored session
\* whose window had been moved there
C31_Witness ==
    /\ activeWs = 1
    /\ \E w \in DOMAIN _handles :
           /\ _handles[w].isRestoreApplied /\ _handles[w].wsTimeoutId = 0
           /\ win[w].workspace = 1
    /\ \A s \in sources : s.kind # "ws"

(***************************************************************************)
(* Malformed JSON in window-app-configs and window-app-states.             *)
(***************************************************************************)
NoStates == [c \in {} |-> EmptyState]

\* C32: a rule list that does not parse leaves the rule set empty and tears
\* every tracked session down with its timers, without an exception leaving
\* the handler; with a saved-state map that does not parse a restoration acts
\* as on an empty map, and a save that writes leaves a map holding exactly the
\* entry of the saved class, built from an empty entry.
C32_MalformedJsonIsEmpty ==
    [][   /\ (enabled /\ appConfigs' # appConfigs /\ ~appConfigs'.ok) =>
                 /\ _configs' = << >>
                 /\ DOMAIN _handles' = {}
                 /\ {t.w : t \in torn'} = DOMAIN _handles
                 /\ \A s \in sources' : s.kind \notin {"save", "ws"}
                 /\ ~_updateConfigs(Ext, win, ParseConfigs(appConfigs')).threw
                 /\ savedStates' = savedStates
          /\ \A w \in Windows :
                 (Restored(w) /\ savedStates = MalformedStates) =>
                     LET c == Head(idles)
                         r == RestoreBody(Ext, w, c.wmClass, c.config, win[w], NoStates, Others(win, w, c.wmClass), activeWs)
                     IN  win'[w] = r.window /\ cmds' = r.cmds /\ savedStates' = savedStates
          /\ (lastSave' # NoSave /\ savedStates = MalformedStates) =>
                 LET r == _performSave(NoStates, lastSave'.wmClass, lastSave'.rect.x, lastSave'.rect.y, lastSave'.rect.width, lastSave'.rect.height,
                                       lastSave'.config, lastSave'.isMaximized, lastSave'.workspaceIndex, lastSave'.minimized, lastSave'.above, lastSave'.sticky)
                 IN  /\ lastSave'.before = EmptyState
                     /\ lastSave'.changed = (enabled /\ r.changed)
                     /\ lastSave'.changed => (DOMAIN savedStates' = {lastSave'.wmClass} /\ savedStates' = r.states)
                     /\ ~lastSave'.changed => savedStates' = savedStates]_vars

\* a restoration has just run while the saved-state map does not parse, in a
\* session that is not the first one of its window
C32_Witness ==
    /\ savedStates = MalformedStates /\ cmds # {}
    /\ \E w \in DOMAIN _handles : _handles[w].isRestoreApplied /\ _handles[w].obj > 0
    /\ appConfigs.ok

(***************************************************************************)
(* Liveness.  The GLib main loop runs every idle callback that stays       *)
(* queued and fires every timeout source that stays attached: weak         *)
(* fairness of the head of the idle queue and of each timeout source.  A   *)
(* timeout that a later change event replaces is a different source, so a  *)
(* window that keeps changing may postpone its save for ever.              *)
(***************************************************************************)
SaveUniverse == {Source(1, "save", w, ClassA, r, RuleA, -1, m) : w \in Focus, r \in FrameRects, m \in BOOLEAN}

NextSession ==
    \/ \E w \in Focus, callShown \in BOOLEAN : WindowCreated(w, ClassA, callShown)
    \/ \E w \in Focus : WindowShown(w)
    \/ \E w \in Focus, r \in FrameRects : FrameChanged(w, r)
    \/ \E w \in Focus : WindowUnmanaging(w)
    \/ \E s \in sources : SaveTimeout(s)
    \/ \E v \in {Json(<< >>), Json(<<RuleA>>)} : ConfigChanged(v)
    \/ \E callShown \in [Windows -> BOOLEAN] : ScanIdle(callShown)
    \/ RestoreIdle
    \/ Disable

SpecFair ==
    /\ InitGeometry /\ [][NextSession]_vars
    /\ WF_vars(\E callShown \in [Windows -> BOOLEAN] : ScanIdle(callShown))
    /\ WF_vars(RestoreIdle)
    /\ \A s \in SaveUniverse : WF_vars(SaveTimeout(s))

\* C33: a save timer started by a change event on a settled session does not
\* stay pending for ever: it leaves the set of sources, and it leaves it only
\* by firing, which performs the snapshot of its class and clears the
\* session's timeoutId with no save timer left for the window, or through a
\* further change event, a config change, the unmanaging or the shutdown of
\* that session.
C33_SaveTimerEventuallyFires ==
    /\ [][\A s \in sources \ sources' :
              \/ /\ lastSave'.by = "timeout" /\ lastSave'.w = s.w /\ lastSave'.wmClass = s.wmClass /\ lastSave'.rect = s.rect
                 /\ lastSave'.after = StateOf(savedStates', s.wmClass)
                 /\ s.w \in DOMAIN _handles' /\ _handles'[s.w].timeoutId = 0
                 /\ SaveSources(s.w)' = {}
              \/ win'[s.w] # win[s.w]
              \/ appConfigs' # appConfigs
              \/ enabled' # enabled]_vars
    /\ [](sources \subseteq SaveUniverse)
    /\ \A s \in SaveUniverse : (s \in sources) ~> (s \notin sources)

\* a save timer is pending on a settled session whose class matches a rule
C33_Witness ==
    \E s \in sources :
        /\ s.kind = "save" /\ s.w \in DOMAIN _handles
        /\ _handles[s.w].isRestoreApplied /\ _handles[s.w].timeoutId = s.id
        /\ _getConfigForWindow(_configs, _handles[s.w].wmClass) # NoRule
        /\ win[s.w].rect = s.rect

\* the deferred restoration callback of w's current session is queued
QueuedFor(w) ==
    /\ Pending(w)
    /\ \E i \in 1..Len(idles) : idles[i].kind = "restore" /\ idles[i].w = w /\ idles[i].obj = _handles[w].obj

\* C34: once the shown notification, or the already-mapped check at session
\* setup, has queued the restoration callback of a tracked window, the
\* callback eventually runs and isRestoreApplied becomes true, unless the
\* session is torn down or the window loses its workspace first; and the
\* callback, when it runs for a pending session whose window has a
\* workspace, sets the flag in that very step.
C34_RestorationEventuallyApplied ==
    /\ [][\A w \in Windows :
              (/\ QueuedFor(w) /\ Head(idles).kind = "restore" /\ Head(idles).w = w /\ Head(idles).obj = _handles[w].obj
               /\ idles' = Tail(idles) /\ win[w].workspace # -1) =>
                  /\ w \in DOMAIN _handles' /\ _handles'[w].isRestoreApplied
                  /\ cmds' # {}]_vars
    /\ \A w \in Windows :
           QueuedFor(w) ~> \/ w \notin DOMAIN _handles
                           \/ _handles[w].isRestoreApplied
                           \/ win[w].workspace = -1

\* the callback queued by the already-mapped check has run: the session is
\* restored, nothing is left in the idle queue and the window has a workspace
C34_Witness ==
    /\ idles = << >> /\ cmds # {}
    /\ \E w \in DOMAIN _handles :
           /\ _handles[w].isRestoreApplied /\ win[w].workspace # -1
           /\ _getConfigForWindow(_configs, win[w].wm_class) # NoRule

\* C35: a change of the rule list creates no session.  A session appears
\* only in a step that reports the window: its creation, the scan of the
\* windows at enable(), or the class notification a window created without a
\* class was waiting for; so a live untracked window stays untracked across
\* a config change, also one that adds a rule matching its class.
C35_ConfigChangeCreatesNoSession ==
    [][   /\ appConfigs' # appConfigs => DOMAIN _handles' \subseteq DOMAIN _handles
          /\ \A w \in Windows :
                 (w \notin DOMAIN _handles /\ w \in DOMAIN _handles') =>
                     /\ appConfigs' = appConfigs
                     /\ \/ win[w].life = "unborn" /\ win'[w].life = "managed"
                        \/ idles # << >> /\ Head(idles).kind = "scan"
                        \/ notifyIds[w] # 0 /\ win[w].wm_class # win'[w].wm_class]_vars

\* a live window is untracked although the rule list now holds a rule for
\* its class, and no scan or class notification is outstanding
C35_Witness ==
    /\ enabled
    /\ \E w \in Windows :
           /\ win[w].life = "managed" /\ w \notin DOMAIN _handles
           /\ _getConfigForWindow(_configs, win[w].wm_class) # NoRule
           /\ notifyIds[w] = 0
    /\ \A i \in 1..Len(idles) : idles[i].kind # "scan"

\* C36: no restoration command is issued to the window of a session that has
\* been torn down: a step that issues commands runs the callback of a session
\* that is still the registered session of its window.
C36_NoCommandAfterTeardown ==
    [][cmds' # {} =>
           /\ idles # << >> /\ Head(idles).kind = "restore"
           /\ Head(idles).w \in DOMAIN _handles
           /\ _handles[Head(idles).w].obj = Head(idles).obj]_vars

\* C37: while the extension is disabled no callback left over from before
\* the shutdown creates a session or writes window-app-states or
\* known-wm-classes, and none of them raises: the registry stays empty, the
\* stores keep their values, and neither the scan of the existing windows nor
\* a class notification ends with an exception.
C37_NothingRunsAfterShutdown ==
    [][(~enabled /\ ~enabled') =>
           /\ DOMAIN _handles' = {}
           /\ savedStates' = savedStates /\ known' = known
           /\ (idles # << >> /\ Head(idles).kind = "scan" /\ idles' = Tail(idles)) =>
                  \A callShown \in [Windows -> BOOLEAN] :
                      ~ScanFrom([Ext EXCEPT !.idles = Tail(@)], 1, win, callShown, _configs, enabled).threw
           /\ \A w \in Windows :
                  (notifyIds[w] # 0 /\ win'[w].wm_class # win[w].wm_class) =>
                      ~onNotifyWmClass(Ext, w, win'[w], FALSE, _configs, enabled).threw]_vars

\* C38: when the collision resolution stops at a free candidate (with fewer
\* siblings than attempts it always does: a sibling is within the tolerance
\* of at most one candidate of the diagonal), the position the restoration
\* applies is at Manhattan distance 10 or more from the top-left corner of
\* every other visible window of the class on the workspace.
C38_AppliedPositionIsFree ==
    [][\A w \in Windows :
           (/\ Restored(w) /\ "move_resize_frame" \in cmds'
            /\ Cardinality(Others(win, w, Head(idles).wmClass)) < MAX_ITERATIONS) =>
               \A o \in Others(win, w, Head(idles).wmClass) :
                   Abs(o.x - win'[w].rect.x) + Abs(o.y - win'[w].rect.y) >= TOLERANCE]_vars

\* C39: a step that tears sessions down through a change of the rule list or
\* through disable() performs no snapshot and leaves window-app-states as it
\* was, the entry of a class without a rule included; the save timers of the
\* sessions it removes are removed with them, so what they would have saved
\* is never written.
C39_TeardownKeepsSavedStates ==
    [][(appConfigs' # appConfigs \/ (enabled /\ ~enabled')) =>
           /\ savedStates' = savedStates
           /\ lastSave' = NoSave
           /\ \A t \in torn' : \A s \in sources' : s.w # t.w
           /\ \A c \in DOMAIN savedStates : c \in DOMAIN savedStates' /\ savedStates'[c] = savedStates[c]]_vars

\* a live window's session has just been torn down with its save timer
\* pending, the store keeps the entry of its class, and the rule list has no
\* rule for the class any more
C39_Witness ==
    \E t \in torn :
        /\ t.timeoutId # 0 /\ win[t.w].life = "managed"
        /\ \A s \in sources : s.w # t.w
        /\ win[t.w].wm_class \in DOMAIN savedStates
        /\ _getConfigForWindow(_configs, win[t.w].wm_class) = NoRule
        /\ lastSave = NoSave

====
